---------------------------- MODULE Spec2Model ----------------------------
(***************************************************************************)
(* Model of the browser client in Frontend/js/chat.js: the ChatInterface   *)
(* controller (transcript, session id, health polling, chat send) and the  *)
(* DocumentProcessor controller (document generation form, news and live   *)
(* chat sockets), together with the local storage they share.              *)
(***************************************************************************)
EXTENDS Integers, Sequences, FiniteSets, TLC

VARIABLES
    now,            \* Date.now(), in units of TickMs milliseconds
    lsChatHistory,  \* localStorage item 'chat_history'
    lsSessionId,    \* localStorage item 'chat_session_id'
    loaded,         \* a ChatInterface has been constructed on the current page
    sessionId,      \* ChatInterface.sessionId
    messages,       \* ChatInterface.messages (a JavaScript value)
    loads,          \* number of page loads so far
    genCalls,       \* number of generateSessionId calls so far
    loadThrew,      \* the last loadChatHistory call let an exception escape
    cleared,        \* localStorage.clear() ran since the last page load
    lsOfflineMode,  \* localStorage item 'offlineMode'
    offlineMode,    \* ChatInterface.offlineMode
    apiAvailable,   \* ChatInterface.apiAvailable (a JavaScript value)
    lastApiCheck,   \* ChatInterface.lastApiCheck
    cacheHealth,    \* ChatInterface.cache[apiUrl + '/health'] (undefined: no entry)
    sends,          \* the executions of the send body, each with its position
    pendingChecks,  \* checkApiAvailability calls of toggleOfflineMode awaiting their fetch
    typing,         \* number of typing indicator elements on the page
    healthReqs,     \* times of the fetches of the health endpoint, since the load
    checkCalls,     \* times of the first checkApiAvailability calls after construction
    statusIndicator,\* class of the #api-status element: "none" before it exists
    settles,        \* how each unthrottled checkApiAvailability call ended
    newsSockets,    \* the WebSocket objects setupNewsWebSocket has created, in order
    newsThrows,     \* setupNewsWebSocket calls in which new WebSocket threw
    chatSockets,    \* the WebSocket objects connectToLiveChatServer has created
    chatSocket,     \* DocumentProcessor.chatSocket: index into chatSockets, 0 if unset
    dpErrors,       \* error banners DocumentProcessor.showError has rendered
    genRuns,        \* the executions of handleDocumentGeneration
    genLoading,     \* the generate-document button is in loading state (disabled)
    formRuns,       \* the executions of the other handlers that toggle a loading state
    formLoading,    \* per handler: its control is in loading state
    newsLoading,    \* DocumentProcessor.newsLoading
    newsHasMore,    \* DocumentProcessor.newsHasMore (its truthiness)
    currentChatId,  \* ChatInterface.currentChatId, "" for null
    chatHistory,    \* ChatInterface.chatHistory: the list of conversations
    lsChatList,     \* localStorage 'chatHistory'
    domChildren,    \* children of #chatMessages: 0, 1, or 2 for more than one
    domMalformed,   \* a child of #chatMessages lacks .message-content
    everUpdated,    \* per conversation recorded so far, its latest record
    listSteps,      \* clock ticks and history clicks of the history run so far
    storage,        \* what localStorage does on this profile: see StorageModes
    initErrors,     \* initialisation error messages the DOMContentLoaded handler showed
    clock,          \* performance time on the page, in units of 100 ms
    timers,         \* the pending timers set by the debounced handleSendMessage
    invocations,    \* the times of the invocations of handleSendMessage so far
    bodyRuns,       \* the runs of the send body: when, and for which invocation
    dpBuilt,        \* the DocumentProcessor constructor has run
    newsPage,       \* DocumentProcessor.newsPage, 0 while unassigned
    newsFilter,     \* the values of the news filter selects
    newsFeed,       \* the items rendered in #newsFeed: the request each came from
    newsLoads,      \* the executions of loadNewsFeed
    newsReqs,       \* the requests of the news endpoint issued so far
    documents,      \* DocumentManager.documents
    dmUploads,      \* the executions of DocumentManager.uploadDocument
    dmAlerts,       \* the alerts DocumentManager has shown, in order
    dmOkUploads,    \* the documents of the upload responses that were ok
    dmDeleteReqs    \* the ids the DELETE requests issued so far named

histVars == <<lsChatHistory, lsSessionId, loaded, sessionId, messages,
              loads, genCalls, loadThrew, cleared>>

apiVars == <<lsOfflineMode, offlineMode, apiAvailable, lastApiCheck, cacheHealth,
             sends, pendingChecks, typing, healthReqs, checkCalls,
             statusIndicator, settles>>

streamVars == <<newsSockets, newsThrows, chatSockets, chatSocket>>

formVars == <<formRuns, formLoading, newsLoading, newsHasMore>>

listVars == <<currentChatId, chatHistory, lsChatList, domChildren, domMalformed,
              everUpdated, listSteps>>

\* the variables the transcript, polling and stream operations leave alone
bootVars == <<storage, initErrors>>

debVars == <<clock, timers, invocations, bodyRuns>>

\* the variables of the later sections
feedVars == <<dpBuilt, newsPage, newsFilter, newsFeed, newsLoads, newsReqs>>

dmVars == <<documents, dmUploads, dmAlerts, dmOkUploads, dmDeleteReqs>>

extVars == <<debVars, feedVars, dmVars>>

docVars == <<genRuns, genLoading, formVars, listVars, bootVars, extVars>>

vars == <<now, histVars, apiVars, streamVars, dpErrors, docVars>>

(***************************************************************************)
(* Bounds of the model.                                                    *)
(***************************************************************************)
MaxStamp == 2       \* the clock of the transcript runs stops advancing here
MaxMsgs  == 4       \* longest transcript explored
MaxLoads == 2       \* page loads explored
MaxClock == 7       \* the clock of the send runs stops advancing here
MaxPollClock == 13  \* the clock of the polling runs stops advancing here
MaxCalls == 2       \* checkApiAvailability calls whose times are recorded
MaxSockets == 3     \* WebSocket constructions explored per stream
MaxPrior == 20      \* conversations held before the history runs start
MaxListSteps == 3   \* clock ticks and history clicks of a history run
MaxFeedLoads == 5    \* executions of loadNewsFeed explored
MaxUploads == 3      \* executions of uploadDocument explored
MaxDebClock == 8     \* the page clock stops advancing here
MaxInvocations == 3  \* invocations of handleSendMessage explored
MaxStreamClock == 3 \* the clock of the stream runs stops advancing here

\* the executions of the send body explored (two can overlap)
SendIds    == {1, 2}

\* the addMessage(role, content) calls explored
Calls      == {<<"user", "hi">>, <<"assistant", "ok">>}
SessionIds == {"session_p", "session_q"}

(***************************************************************************)
(* JavaScript values.  Every kind has its own record shape.                *)
(***************************************************************************)
Undef      == [t |-> "undef"]
Null       == [t |-> "null"]
Bool(b)    == [t |-> "bool", b |-> b]
Str(s)     == [t |-> "str", s |-> s]
Num(lit)   == [t |-> "num", lit |-> lit]
Arr(items) == [t |-> "arr", items |-> items]
Obj(kv)    == [t |-> "obj", kv |-> kv]
Member(key, val) == [key |-> key, val |-> val]

\* obj[key] for an object value: the last member of that name, or undefined
RECURSIVE GetMember(_, _, _)
GetMember(kv, key, i) ==
    IF i = 0 THEN Undef
    ELSE IF kv[i].key = key THEN kv[i].val
    ELSE GetMember(kv, key, i - 1)

\* value.key throws a TypeError exactly for null and undefined
PropThrows(v) == v.t \in {"null", "undef"}

\* value.key for the keys the program reads (role, content): primitives and
\* arrays have no such property
Prop(v, key) ==
    IF v.t = "obj" THEN GetMember(v.kv, key, Len(v.kv)) ELSE Undef

\* ToBoolean
Truthy(v) ==
    CASE v.t = "bool" -> v.b
      [] v.t = "str"  -> v.s # ""
      [] v.t = "num"  -> v.lit # "0"
      [] v.t \in {"arr", "obj"} -> TRUE
      [] OTHER -> FALSE

(***************************************************************************)
(* JSON text is a sequence of tokens.                                      *)
(***************************************************************************)
Tok(k, v) == [k |-> k, v |-> v]
LBracket  == Tok("[", "")
RBracket  == Tok("]", "")
LBrace    == Tok("{", "")
RBrace    == Tok("}", "")
Comma     == Tok(",", "")
Colon     == Tok(":", "")
NullTok   == Tok("null", "")
TrueTok   == Tok("true", "")
FalseTok  == Tok("false", "")

\* JSON.stringify: undefined members of an object are dropped, undefined
\* elements of an array become null
RECURSIVE Stringify(_), StringifyItems(_, _), StringifyMembers(_, _, _)
Stringify(v) ==
    CASE v.t = "null"  -> <<NullTok>>
      [] v.t = "undef" -> <<NullTok>>
      [] v.t = "bool"  -> <<IF v.b THEN TrueTok ELSE FalseTok>>
      [] v.t = "str"   -> <<Tok("str", v.s)>>
      [] v.t = "num"   -> <<Tok("num", v.lit)>>
      [] v.t = "arr"   -> <<LBracket>> \o StringifyItems(v.items, 1) \o <<RBracket>>
      [] v.t = "obj"   -> <<LBrace>> \o StringifyMembers(v.kv, 1, TRUE) \o <<RBrace>>

StringifyItems(items, i) ==
    IF i > Len(items) THEN <<>>
    ELSE (IF i > 1 THEN <<Comma>> ELSE <<>>)
         \o Stringify(items[i]) \o StringifyItems(items, i + 1)

StringifyMembers(kv, i, first) ==
    IF i > Len(kv) THEN <<>>
    ELSE IF kv[i].val.t = "undef" THEN StringifyMembers(kv, i + 1, first)
    ELSE (IF first THEN <<>> ELSE <<Comma>>)
         \o <<Tok("str", kv[i].key), Colon>> \o Stringify(kv[i].val)
         \o StringifyMembers(kv, i + 1, FALSE)

\* JSON.parse, by recursive descent; ok = FALSE stands for the SyntaxError
ParseFail == [ok |-> FALSE, val |-> Null, next |-> 0]
ParseOk(v, n) == [ok |-> TRUE, val |-> v, next |-> n]

RECURSIVE ParseValue(_, _), ParseElements(_, _, _), ParseMembers(_, _, _)
ParseValue(toks, i) ==
    IF i > Len(toks) THEN ParseFail
    ELSE CASE toks[i].k = "null" -> ParseOk(Null, i + 1)
           [] toks[i].k = "true"  -> ParseOk(Bool(TRUE), i + 1)
           [] toks[i].k = "false" -> ParseOk(Bool(FALSE), i + 1)
           [] toks[i].k = "str"  -> ParseOk(Str(toks[i].v), i + 1)
           [] toks[i].k = "num"  -> ParseOk(Num(toks[i].v), i + 1)
           [] toks[i].k = "["    ->
                IF i + 1 <= Len(toks) /\ toks[i + 1].k = "]"
                THEN ParseOk(Arr(<<>>), i + 2)
                ELSE ParseElements(toks, i + 1, <<>>)
           [] toks[i].k = "{"    ->
                IF i + 1 <= Len(toks) /\ toks[i + 1].k = "}"
                THEN ParseOk(Obj(<<>>), i + 2)
                ELSE ParseMembers(toks, i + 1, <<>>)
           [] OTHER -> ParseFail

ParseElements(toks, i, acc) ==
    LET r == ParseValue(toks, i) IN
    IF ~r.ok \/ r.next > Len(toks) THEN ParseFail
    ELSE IF toks[r.next].k = ","
         THEN ParseElements(toks, r.next + 1, Append(acc, r.val))
    ELSE IF toks[r.next].k = "]"
         THEN ParseOk(Arr(Append(acc, r.val)), r.next + 1)
    ELSE ParseFail

ParseMembers(toks, i, acc) ==
    IF i + 1 > Len(toks) \/ toks[i].k # "str" \/ toks[i + 1].k # ":"
    THEN ParseFail
    ELSE LET r == ParseValue(toks, i + 2) IN
         IF ~r.ok \/ r.next > Len(toks) THEN ParseFail
         ELSE IF toks[r.next].k = ","
              THEN ParseMembers(toks, r.next + 1,
                                Append(acc, Member(toks[i].v, r.val)))
         ELSE IF toks[r.next].k = "}"
              THEN ParseOk(Obj(Append(acc, Member(toks[i].v, r.val))),
                           r.next + 1)
         ELSE ParseFail

JsonParse(text) ==
    LET r == ParseValue(text, 1) IN
    IF r.ok /\ r.next = Len(text) + 1 THEN r ELSE ParseFail

(***************************************************************************)
(* Local storage items: getItem returns null for a missing key.            *)
(***************************************************************************)
NoText      == [present |-> FALSE, text |-> <<>>]
Text(toks)  == [present |-> TRUE, text |-> toks]
NoString    == [present |-> FALSE, s |-> ""]
String(s)   == [present |-> TRUE, s |-> s]

\* truthiness of a getItem result: null and "" are falsy
TruthyText(item)   == item.present /\ item.text # <<>>
TruthyString(item) == item.present /\ item.s # ""


(***************************************************************************)
(* ChatInterface: transcript and session id.                               *)
(***************************************************************************)
\* document.querySelector('.chat-messages') in addMessage: the chat page
\* holds the container, and no code of the program removes it
HasChatMessagesEl == TRUE

\* new Date().toISOString() at clock value t
ToISOString(t) == "T" \o ToString(t)

\* { role, content, timestamp: new Date().toISOString() }
Message(role, content, t) ==
    Obj(<<Member("role", role), Member("content", content),
          Member("timestamp", Str(ToISOString(t)))>>)

\* a save that stores nothing
SaveChatHistory_Skipped(msgs) == NoText

\* saveChatHistory: the text stored under 'chat_history'
SaveChatHistory(msgs) == Text(Stringify(msgs))

\* an addMessage that puts the message in front of the transcript
AddMessage_Prepends(st, role, content, t) ==
    IF st.messages.t # "arr" THEN [st EXCEPT !.exc = TRUE]
    ELSE LET msgs == Arr(<<Message(role, content, t)>> \o st.messages.items)
         IN  [st EXCEPT !.messages = msgs, !.stored = SaveChatHistory(msgs)]

\* addMessage(role, content): push, then saveChatHistory.  push on a value
\* that is no array is a TypeError.
AddMessage(st, role, content, t) ==
    IF ~HasChatMessagesEl THEN st
    ELSE IF st.messages.t # "arr" THEN [st EXCEPT !.exc = TRUE]
    ELSE LET msgs == Arr(Append(st.messages.items, Message(role, content, t)))
         IN  [st EXCEPT !.messages = msgs, !.stored = SaveChatHistory(msgs)]

\* this.messages.forEach(msg => this.addMessage(msg.role, msg.content)):
\* forEach visits the n elements the array had when it started, while every
\* addMessage appends to that same array; reading msg.role of null throws.
RECURSIVE ForEachAddMessage(_, _, _, _)
ForEachAddMessage(st, n, i, t) ==
    IF i > n \/ st.exc THEN st
    ELSE LET msg == st.messages.items[i] IN
         IF PropThrows(msg) THEN [st EXCEPT !.exc = TRUE]
         ELSE ForEachAddMessage(
                  AddMessage(st, Prop(msg, "role"), Prop(msg, "content"), t),
                  n, i + 1, t)

\* the body of loadChatHistory's try block
LoadTryBody(st, t) ==
    LET p == JsonParse(st.stored.text) IN
    IF ~p.ok THEN [st EXCEPT !.exc = TRUE]
    ELSE IF p.val.t # "arr"
         THEN [st EXCEPT !.messages = p.val, !.exc = TRUE]
         ELSE ForEachAddMessage([st EXCEPT !.messages = p.val],
                                Len(p.val.items), 1, t)

\* catch (error) { console.error(...) }: the exception stops here and nothing
\* else is done
LoadCatch(st) == [st EXCEPT !.exc = FALSE]

\* loadChatHistory, the definition in effect (the later one of the class body)
LoadChatHistory(st, t) ==
    IF TruthyText(st.stored) THEN LoadCatch(LoadTryBody(st, t)) ELSE st

\* constructor: localStorage.getItem('chat_session_id') || this.generateSessionId(),
\* where fresh is the id generateSessionId draws from Math.random()
ConstructorSessionId_AlwaysFresh(item, fresh) == fresh

ConstructorSessionId(item, fresh) ==
    IF TruthyString(item) THEN item.s ELSE fresh

\* generateSessionId: localStorage.setItem('chat_session_id', sessionId)
GenerateSessionId(fresh) == String(fresh)

\* Number of elements of an array value
CountArr(v) == IF v.t = "arr" THEN Len(v.items) ELSE 0

(***************************************************************************)
(* ChatInterface: health polling.  The clock counts units of 5 seconds.    *)
(***************************************************************************)
\* this.apiCheckInterval = 30000 (ms), in clock units
apiCheckInterval == 6

\* the state of the ChatInterface an operation works on
Cur ==
    [messages |-> messages, stored |-> lsChatHistory, exc |-> FALSE,
     apiAvailable |-> apiAvailable, lastApiCheck |-> lastApiCheck,
     cacheHealth |-> cacheHealth, typing |-> typing,
     healthReqs |-> healthReqs, checkCalls |-> checkCalls,
     indicator |-> statusIndicator, settles |-> settles]

\* what a piece of checkApiAvailability hands on: the state, whether the call
\* has returned or awaits its fetch, and the value it returned
CheckResult(cs, status, ret) == [cs |-> cs, status |-> status, ret |-> ret]

\* updateApiStatusIndicator: the #api-status element is created or updated
\* with the class the truthiness of apiAvailable selects
UpdateApiStatusIndicator(cs) ==
    [cs EXCEPT !.indicator = IF Truthy(cs.apiAvailable) THEN "online" ELSE "offline"]

\* one more entry of the log of ended checks
Settled(cs, how, ret) == [cs EXCEPT !.settles = Append(@, [how |-> how, ret |-> ret])]

\* a catch block that keeps the flag and the indicator as they are
CheckApiCatch_KeepsFlag(cs, how) ==
    CheckResult(Settled(cs, how, Bool(FALSE)), "returned", Bool(FALSE))

\* catch (error) of checkApiAvailability: apiAvailable = false;
\* updateApiStatusIndicator(); return false
CheckApiCatch(cs, how) ==
    CheckResult(Settled(UpdateApiStatusIndicator([cs EXCEPT !.apiAvailable = Bool(FALSE)]),
                        how, Bool(FALSE)),
                "returned", Bool(FALSE))

\* checkApiAvailability after fetchWithCache has returned data:
\* this.apiAvailable = response.ok; return this.apiAvailable
CheckApiResolve(cs, data, how) ==
    IF PropThrows(data) THEN CheckApiCatch(cs, "threw")
    ELSE CheckResult(Settled(UpdateApiStatusIndicator(
                                 [cs EXCEPT !.apiAvailable = Prop(data, "ok")]),
                             how, Prop(data, "ok")),
                     "returned", Prop(data, "ok"))

\* the throttle of checkApiAvailability
Throttled(last, t) == t - last < apiCheckInterval /\ last # 0

\* checkApiAvailability up to its first suspension, called at time t.
\* cacheDefined: this.cache has been assigned.  Reading this.cache[url] of an
\* undefined cache is a TypeError inside fetchWithCache, which rejects.
CheckApiStart(cs, t, cacheDefined) ==
    LET called == [cs EXCEPT !.checkCalls =
                       IF Len(@) < MaxCalls /\ cacheDefined THEN Append(@, t) ELSE @]
    IN
    IF Throttled(cs.lastApiCheck, t) THEN CheckResult(called, "returned", Undef)
    ELSE LET c1 == [called EXCEPT !.lastApiCheck = t] IN
         IF ~cacheDefined THEN CheckApiCatch(c1, "threw")
         ELSE IF Truthy(c1.cacheHealth)
              THEN CheckApiResolve(c1, c1.cacheHealth, "cached")
         ELSE CheckResult([c1 EXCEPT !.healthReqs = Append(@, t)], "pending", Undef)

\* what can come back from a fetch: the promise rejects, or a response arrives
\* whose body is one of these texts
HealthBodies ==
    { <<LBrace, Tok("str", "ok"), Colon, TrueTok, RBrace>>,                  \* {"ok":true}
      <<LBrace, Tok("str", "status"), Colon, Tok("str", "healthy"), RBrace>>, \* {"status":"healthy"}
      <<Tok("junk", "x")>> }                                                  \* not JSON

\* the rest of fetchWithCache and checkApiAvailability once the fetch of the
\* health endpoint has settled
CheckApiSettle(cs, rejected, body) ==
    IF rejected THEN CheckApiCatch(cs, "rejected")
    ELSE LET p == JsonParse(body) IN
         IF ~p.ok THEN CheckApiCatch(cs, "badjson")
         ELSE CheckApiResolve([cs EXCEPT !.cacheHealth = p.val], p.val, "answered")

(***************************************************************************)
(* ChatInterface: the send body (the function handleSendMessage debounces).*)
(***************************************************************************)
OfflineNotice == "The server is currently offline. Please try again later."
ErrorNotice   == "Error processing your request. Please try again later."

\* the texts of the input box explored
RawInputs == {" ", " <b>"}

\* String.prototype.trim on those texts
Trim(raw) == CASE raw = " " -> "" [] raw = " <b>" -> "<b>" [] OTHER -> raw

\* sanitizeInput: textContent in, innerHTML out escapes the markup characters
SanitizeInput(text) == CASE text = "<b>" -> "&lt;b&gt;" [] OTHER -> text

\* showTypingIndicator / hideTypingIndicator
ShowTypingIndicator(cs) ==
    IF HasChatMessagesEl THEN [cs EXCEPT !.typing = @ + 1] ELSE cs
HideTypingIndicator(cs) ==
    IF cs.typing > 0 THEN [cs EXCEPT !.typing = @ - 1] ELSE cs

IdleSend == [pc |-> "idle", outcome |-> "none", posts |-> 0]

\* where an execution of the send body stands after a piece of it has run
SendResult(cs, pc, outcome, posts) ==
    [cs |-> cs, pc |-> pc, outcome |-> outcome, posts |-> posts]

\* an exception that leaves the async function: the promise rejects
SendRejects(cs, posts) == SendResult([cs EXCEPT !.exc = FALSE], "done", "threw", posts)

\* showTypingIndicator(); await fetch(apiUrl + '/chat', POST)
SendIssuePost(cs, posts) ==
    SendResult(ShowTypingIndicator(cs), "post", "none", posts + 1)

\* catch (error) of the send body
SendCatch_NoFlagFlip(cs, outcome, posts) ==
    SendResult(AddMessage(HideTypingIndicator(cs), Str("assistant"),
                          Str(ErrorNotice), now),
               "done", outcome, posts)

SendCatch(cs, outcome, posts) ==
    LET added == AddMessage(HideTypingIndicator(cs), Str("assistant"),
                            Str(ErrorNotice), now)
    IN  IF added.exc THEN SendRejects(added, posts)
        ELSE SendResult(UpdateApiStatusIndicator([added EXCEPT !.apiAvailable = Bool(FALSE)]),
                        "done", outcome, posts)

\* the send body after "const apiAvailable = await this.checkApiAvailability()"
SendAfterCheck(cs, ret, why, posts) ==
    IF ~Truthy(ret)
    THEN LET added == AddMessage(cs, Str("assistant"), Str(OfflineNotice), now) IN
         IF added.exc THEN SendCatch([added EXCEPT !.exc = FALSE], "threw", posts)
         ELSE SendResult(added, "done", why, posts)
    ELSE SendIssuePost(cs, posts)

\* why a check that returned a falsy value did so
OfflineReason(throttled, rejected) ==
    IF throttled THEN "offline_throttled"
    ELSE IF rejected THEN "offline_unreachable" ELSE "offline_unhealthy"

\* the send body from its start to its first suspension
SendStart(cs, raw, t) ==
    LET message == SanitizeInput(Trim(raw)) IN
    IF message = "" THEN SendResult(cs, "done", "empty", 0)
    ELSE LET u == AddMessage(cs, Str("user"), Str(message), t) IN
         IF u.exc THEN SendRejects(u, 0)
         ELSE IF Truthy(u.apiAvailable) THEN SendIssuePost(u, 0)
         ELSE LET c == CheckApiStart(u, t, TRUE) IN
              IF c.status = "pending" THEN SendResult(c.cs, "hfetch", "none", 0)
              ELSE SendAfterCheck(c.cs, c.ret,
                                  OfflineReason(Throttled(u.lastApiCheck, t), FALSE), 0)

\* the fetch of the health endpoint made for this send has settled
SendHealthSettled(cs, rejected, body) ==
    LET c == CheckApiSettle(cs, rejected, body) IN
    SendAfterCheck(c.cs, c.ret, OfflineReason(FALSE, rejected), 0)

\* the POST has settled: rejected, or a response with response.ok = ok
SendPostSettled_NoNotice(cs, rejected, ok, posts) ==
    IF rejected THEN SendCatch(cs, "post_rejected", posts)
    ELSE IF ok THEN SendResult(HideTypingIndicator(cs), "pjson", "none", posts)
    ELSE SendResult(HideTypingIndicator(cs), "done", "http_error", posts)

SendPostSettled(cs, rejected, ok, posts) ==
    IF rejected THEN SendCatch(cs, "post_rejected", posts)
    ELSE IF ok THEN SendResult(HideTypingIndicator(cs), "pjson", "none", posts)
    ELSE LET added == AddMessage(HideTypingIndicator(cs), Str("assistant"),
                                 Str(ErrorNotice), now) IN
         IF added.exc THEN SendCatch([added EXCEPT !.exc = FALSE], "threw", posts)
         ELSE SendResult(added, "done", "http_error", posts)

\* bodies of an ok response of the chat endpoint
ChatBodies ==
    { <<LBrace, Tok("str", "response"), Colon, Tok("str", "ok"), RBrace>>,  \* {"response":"ok"}
      <<Tok("junk", "x")>> }                                                 \* not JSON

\* await response.json() of the POST has settled
SendJsonSettled(cs, body, posts) ==
    LET p == JsonParse(body) IN
    IF ~p.ok \/ PropThrows(p.val) THEN SendCatch(cs, "json_failed", posts)
    ELSE LET added == AddMessage(cs, Str("assistant"), Prop(p.val, "response"), now) IN
         IF added.exc THEN SendCatch([added EXCEPT !.exc = FALSE], "threw", posts)
         ELSE SendResult(added, "done", "replied", posts)

(***************************************************************************)
(* Actions.                                                                *)
(***************************************************************************)
\* the variables an operation on the ChatInterface state leaves as cs says
ApplyPage(cs) ==
    /\ messages' = cs.messages
    /\ lsChatHistory' = cs.stored
    /\ apiAvailable' = cs.apiAvailable
    /\ lastApiCheck' = cs.lastApiCheck
    /\ cacheHealth' = cs.cacheHealth
    /\ typing' = cs.typing
    /\ healthReqs' = cs.healthReqs
    /\ checkCalls' = cs.checkCalls
    /\ statusIndicator' = cs.indicator
    /\ settles' = cs.settles

Apply(cs) ==
    /\ ApplyPage(cs)
    /\ UNCHANGED <<streamVars, dpErrors, docVars>>

\* The constructor of ChatInterface, run by the DOMContentLoaded handler of a
\* page load: a fresh object on a fresh page; sessionId from storage or
\* generateSessionId, messages = [], loadChatHistory, then
\* checkApiAvailability while this.cache is still unassigned, then cache = {}.
FreshPage ==
    [messages |-> Arr(<<>>), stored |-> lsChatHistory, exc |-> FALSE,
     apiAvailable |-> Bool(FALSE), lastApiCheck |-> 0, cacheHealth |-> Undef,
     typing |-> 0, healthReqs |-> <<>>, checkCalls |-> <<>>,
     indicator |-> "none", settles |-> <<>>]

Constructed(t) == CheckApiStart(LoadChatHistory(FreshPage, t), t, FALSE).cs

PageLoad ==
    /\ storage = "ok"
    /\ loads < MaxLoads
    /\ CountArr(Constructed(now).messages) <= MaxMsgs
    /\ loads' = loads + 1
    /\ loaded' = TRUE
    /\ cleared' = FALSE
    /\ \E fresh \in SessionIds :
           /\ sessionId' = ConstructorSessionId(lsSessionId, fresh)
           /\ IF TruthyString(lsSessionId)
              THEN UNCHANGED <<lsSessionId, genCalls>>
              ELSE /\ lsSessionId' = GenerateSessionId(fresh)
                   /\ genCalls' = genCalls + 1
    /\ offlineMode' = (lsOfflineMode = String("true"))
    /\ Apply(Constructed(now))
    /\ loadThrew' = LoadChatHistory(FreshPage, now).exc
    /\ sends' = [k \in SendIds |-> IdleSend]
    /\ pendingChecks' = 0
    /\ UNCHANGED <<now, lsOfflineMode>>

\* Any caller of addMessage(role, content) on the loaded page (setLanguage,
\* setJurisdiction, the upload handler, the welcome message).
\* A call that throws at push changes nothing of this state.
AddMessageCall ==
    /\ loaded
    /\ CountArr(messages) < MaxMsgs
    /\ \E call \in Calls :
           LET r == AddMessage(Cur, Str(call[1]), Str(call[2]), now) IN
               /\ ~r.exc
               /\ Apply(r)
    /\ UNCHANGED <<now, lsSessionId, loaded, sessionId, loads, genCalls,
                   loadThrew, cleared, lsOfflineMode, offlineMode, sends,
                   pendingChecks>>

\* DocumentProcessor.clearLocalStorage, reached from handleDataDeletion when
\* the user confirms and the backend answers ok: localStorage.clear()
ClearLocalStorage ==
    /\ loaded
    /\ lsChatHistory' = NoText
    /\ lsSessionId' = NoString
    /\ lsOfflineMode' = NoString
    /\ cleared' = TRUE
    /\ UNCHANGED <<now, loaded, sessionId, messages, loads, genCalls, loadThrew,
                   offlineMode, apiAvailable, lastApiCheck, cacheHealth, sends,
                   pendingChecks, typing, healthReqs, checkCalls,
                   statusIndicator, settles, streamVars, dpErrors, docVars>>

\* Time passes (transcript runs)
Tick ==
    /\ now < MaxStamp
    /\ now' = now + 1
    /\ UNCHANGED <<histVars, apiVars, streamVars, dpErrors, docVars>>

\* Time passes (send runs)
ApiTick ==
    /\ now < MaxClock
    /\ now' = now + 1
    /\ UNCHANGED <<histVars, apiVars, streamVars, dpErrors, docVars>>

\* toggleOfflineMode: flip and store the mode; going offline sets
\* apiAvailable = false, going online calls checkApiAvailability (not awaited)
ToggleOfflineMode ==
    /\ loaded
    /\ offlineMode' = ~offlineMode
    /\ lsOfflineMode' = String(IF ~offlineMode THEN "true" ELSE "false")
    /\ IF ~offlineMode
       THEN /\ Apply(UpdateApiStatusIndicator([Cur EXCEPT !.apiAvailable = Bool(FALSE)]))
            /\ UNCHANGED pendingChecks
       ELSE LET c == CheckApiStart(Cur, now, TRUE) IN
            /\ Apply(UpdateApiStatusIndicator(c.cs))
            /\ pendingChecks' = IF c.status = "pending"
                                THEN pendingChecks + 1 ELSE pendingChecks
    /\ UNCHANGED <<now, lsSessionId, loaded, sessionId, loads, genCalls,
                   loadThrew, cleared, sends>>

\* the fetch of the health endpoint of such a check settles
ToggleCheckSettles ==
    /\ pendingChecks > 0
    /\ pendingChecks' = pendingChecks - 1
    /\ \E rejected \in BOOLEAN, body \in HealthBodies :
           Apply(CheckApiSettle(Cur, rejected, body).cs)
    /\ UNCHANGED <<now, lsSessionId, loaded, sessionId, loads, genCalls,
                   loadThrew, cleared, lsOfflineMode, offlineMode, sends>>

\* the part of a step of send k that is common to all its steps
SendStep(k, r) ==
    /\ Apply(r.cs)
    /\ sends' = [sends EXCEPT ![k] = [pc |-> r.pc, outcome |-> r.outcome,
                                      posts |-> r.posts]]
    /\ UNCHANGED <<now, lsSessionId, loaded, sessionId, loads, genCalls,
                   loadThrew, cleared, lsOfflineMode, offlineMode, pendingChecks>>

\* the debounce timer fires and the send body starts
SendBody(k) ==
    /\ loaded
    /\ sends[k].pc = "idle"
    /\ \A j \in SendIds : j < k => sends[j].pc # "idle"
    /\ \E raw \in RawInputs : SendStep(k, SendStart(Cur, raw, now))

\* the health fetch awaited by send k settles
SendHealthDone(k) ==
    /\ sends[k].pc = "hfetch"
    /\ \E rejected \in BOOLEAN, body \in HealthBodies :
           SendStep(k, SendHealthSettled(Cur, rejected, body))

\* the POST of send k settles
SendPostDone(k) ==
    /\ sends[k].pc = "post"
    /\ \E rejected \in BOOLEAN, ok \in BOOLEAN :
           SendStep(k, SendPostSettled(Cur, rejected, ok, sends[k].posts))

\* response.json() of send k settles
SendJsonDone(k) ==
    /\ sends[k].pc = "pjson"
    /\ \E body \in ChatBodies :
           SendStep(k, SendJsonSettled(Cur, body, sends[k].posts))

\* No DocumentProcessor activity: no socket constructed, no banner, no
\* generation run
GenIds == {1, 2}

NdaFieldIds == {"party1", "party2", "confidentiality_period", "purpose"}

WillFieldIds == {"testator_name", "executor_name", "beneficiaries", "assets"}

FieldIds == NdaFieldIds \cup WillFieldIds

NoBody == [template_key |-> "", jurisdiction |-> "", language |-> "",
           parameters |-> [id \in {} |-> ""]]

IdleGen ==
    [pc |-> "idle", templateKey |-> "", jurisdiction |-> "", language |-> "",
     fields |-> [id \in FieldIds |-> ""], requests |-> 0, body |-> NoBody,
     banners |-> 0, threw |-> FALSE]

ChatStreamIdle ==
    /\ chatSockets = <<>>
    /\ chatSocket = 0
    /\ dpErrors = 0

\* the handlers of DocumentProcessor, other than document generation, that
\* put a control in loading state around one request
FormControllers ==
    {"analysis", "monitoring", "updates", "expert", "booking", "news", "faq"}

FormIds == {1, 2}

IdleForm == [pc |-> "idle", ctl |-> "none", inputs |-> <<>>, requests |-> 0,
             banners |-> 0]

\* the conversation list of a page on which no conversation was recorded
NoList == [present |-> FALSE, entries |-> <<>>]

IdleList == [cur |-> "", list |-> <<>>, stored |-> NoList, dom |-> 0,
             bad |-> FALSE, ever |-> {}]

\* the list variables are what hs says
ListIs(hs) ==
    /\ currentChatId = hs.cur
    /\ chatHistory = hs.list
    /\ lsChatList = hs.stored
    /\ domChildren = hs.dom
    /\ domMalformed = hs.bad
    /\ everUpdated = hs.ever

FormsIdle ==
    /\ genRuns = [k \in GenIds |-> IdleGen]
    /\ genLoading = FALSE
    /\ formRuns = [f \in FormIds |-> IdleForm]
    /\ formLoading = [c \in FormControllers |-> FALSE]
    /\ newsLoading = FALSE
    /\ newsHasMore = TRUE

DocIdle ==
    /\ ListIs(IdleList)
    /\ listSteps = 0
    /\ FormsIdle

DpIdle ==
    /\ newsSockets = <<>>
    /\ newsThrows = 0
    /\ ChatStreamIdle
    /\ DocIdle

ApiInitVars ==
    /\ lsOfflineMode = NoString
    /\ offlineMode = FALSE
    /\ apiAvailable = Bool(FALSE)
    /\ lastApiCheck = 0
    /\ cacheHealth = Undef
    /\ sends = [k \in SendIds |-> IdleSend]
    /\ pendingChecks = 0
    /\ typing = 0
    /\ healthReqs = <<>>
    /\ checkCalls = <<>>
    /\ statusIndicator = "none"
    /\ settles = <<>>

\* handleSendMessage has not been invoked
DebIdle ==
    /\ clock = 0
    /\ timers = {}
    /\ invocations = <<>>
    /\ bodyRuns = <<>>

\* the executions of loadNewsFeed explored
FeedLoadIds == 1..MaxFeedLoads

\* the values of the filter selects explored
NewsFilters == {"all", "tax", "labor"}

IdleLoad == [pc |-> "idle", filter |-> "", page |-> 0, skipped |-> FALSE]

\* a DocumentProcessor has been constructed and no news load has run
FeedIdle ==
    /\ dpBuilt = TRUE
    /\ newsPage = 1
    /\ newsFilter = "all"
    /\ newsFeed = <<>>
    /\ newsLoads = [l \in FeedLoadIds |-> IdleLoad]
    /\ newsReqs = <<>>

\* the executions of uploadDocument explored
UploadIds == 1..MaxUploads

IdleUpload == [pc |-> "idle", file |-> ""]

\* a DocumentManager just constructed: this.documents = []
DmIdle ==
    /\ documents = <<>>
    /\ dmUploads = [u \in UploadIds |-> IdleUpload]
    /\ dmAlerts = <<>>
    /\ dmOkUploads = {}
    /\ dmDeleteReqs = <<>>

\* nothing of the later sections has happened
ExtIdle ==
    /\ DebIdle
    /\ FeedIdle
    /\ DmIdle

\* localStorage on this profile: "ok" works; "quota" reads but setItem throws
\* (a full or zero-quota store); "denied" throws on every access
StorageModes == {"ok", "quota", "denied"}

StorageWorks ==
    /\ storage = "ok"
    /\ initErrors = 0
    /\ ExtIdle

ProfileInit ==
    /\ now = 1
    /\ lsSessionId = NoString
    /\ loaded = FALSE
    /\ sessionId = ""
    /\ messages = Arr(<<>>)
    /\ loads = 0
    /\ genCalls = 0
    /\ loadThrew = FALSE
    /\ cleared = FALSE
    /\ ApiInitVars

HistInit ==
    /\ StorageWorks
    /\ ProfileInit

\* A fresh browser profile, before the first page load
Init ==
    /\ HistInit
    /\ lsChatHistory = NoText
    /\ DpIdle

Next == PageLoad \/ AddMessageCall \/ ClearLocalStorage \/ Tick

Spec == Init /\ [][Next]_vars

(***************************************************************************)
(* ChatInterface: the clear-chat button.                                   *)
(***************************************************************************)
\* document.getElementById('chat-container') in clearCurrentChat
HasChatContainer == TRUE

\* the text showWelcomeMessage hands to addMessage
WelcomeMessage == "Hello! I'm your AI legal assistant."

\* clearCurrentChat: the container is emptied, this.chatHistory (the list of
\* conversations) is set to [], saveChatHistory stores this.messages as it
\* is, and showWelcomeMessage calls addMessage
ClearCurrentChat(st, t) ==
    IF ~HasChatContainer THEN st
    ELSE AddMessage([st EXCEPT !.stored = SaveChatHistory(st.messages)],
                    Str("assistant"), Str(WelcomeMessage), t)

\* a click on #clear-chat; an exception of addMessage leaves the listener
ClearChatClick ==
    /\ loaded
    /\ CountArr(messages) < MaxMsgs
    /\ ApplyPage([ClearCurrentChat(Cur, now) EXCEPT !.exc = FALSE])
    /\ chatHistory' = IF HasChatContainer THEN <<>> ELSE chatHistory
    /\ UNCHANGED <<now, lsSessionId, loaded, sessionId, loads, genCalls, loadThrew,
                   cleared, lsOfflineMode, offlineMode, sends, pendingChecks,
                   streamVars, dpErrors, genRuns, genLoading, formVars,
                   currentChatId, lsChatList, domChildren, domMalformed,
                   everUpdated, listSteps, bootVars, extVars>>

ClearNext == Next \/ ClearChatClick

SpecClear == Init /\ [][ClearNext]_vars

(***************************************************************************)
(* DocumentManager.                                                        *)
(***************************************************************************)
\* the files offered for upload, all of a valid type
FileNames == {"a.pdf", "b.txt"}

\* the document the backend describes in its answer to upload u of a file
UploadedDocument(u, file) == [id |-> u, title |-> file]

\* the state of the DocumentManager as a record
DmCur ==
    [documents |-> documents, uploads |-> dmUploads, alerts |-> dmAlerts,
     okUploads |-> dmOkUploads, deleteReqs |-> dmDeleteReqs]

\* the parameter or constant named document of addDocumentToList and
\* deleteDocument hides the global document: document.querySelector is looked
\* up on the value parsed from the response, which has no such method, and
\* the call throws a TypeError
IsDomDocument(doc) == FALSE

\* addDocumentToList(document): document.querySelector(...), insertBefore,
\* this.documents.push(document); threw tells whether it threw
AddDocumentToList(ds, doc) ==
    IF ~IsDomDocument(doc) THEN [ds |-> ds, threw |-> TRUE]
    ELSE [ds |-> [ds EXCEPT !.documents = Append(@, doc)], threw |-> FALSE]

\* catch of uploadDocument
UploadCatch(ds, u) ==
    [ds EXCEPT !.alerts = Append(@, "upload_failed"), !.uploads[u].pc = "done"]

\* uploadDocument(file) as execution u, up to await fetch
UploadDocument(ds, u, file) ==
    [ds EXCEPT !.uploads[u] = [pc |-> "fetch", file |-> file]]

\* the fetch of upload u has settled
UploadFetchSettled(ds, u, rejected, ok) ==
    IF rejected \/ ~ok THEN UploadCatch(ds, u)
    ELSE [ds EXCEPT !.uploads[u].pc = "json"]

\* response.json() of upload u has settled
UploadJsonSettled(ds, u, parsed) ==
    IF ~parsed THEN UploadCatch(ds, u)
    ELSE LET doc == UploadedDocument(u, ds.uploads[u].file)
             answered == [ds EXCEPT !.okUploads = @ \cup {doc}]
             added == AddDocumentToList(answered, doc)
         IN  IF added.threw THEN UploadCatch(added.ds, u)
             ELSE [added.ds EXCEPT !.alerts = Append(@, "uploaded"),
                                   !.uploads[u].pc = "done"]

\* deleteDocument(title) up to await fetch: confirm, find, DELETE
DeleteDocument(ds, title, confirmed) ==
    IF ~confirmed THEN ds
    ELSE LET found == {i \in DOMAIN ds.documents : ds.documents[i].title = title} IN
         IF found = {} THEN ds
         ELSE LET first == CHOOSE i \in found : \A j \in found : i <= j IN
              [ds EXCEPT !.deleteReqs = Append(@, ds.documents[first].id)]

\* the DocumentManager variables become what ds says
ApplyDm(ds) ==
    /\ documents' = ds.documents
    /\ dmUploads' = ds.uploads
    /\ dmAlerts' = ds.alerts
    /\ dmOkUploads' = ds.okUploads
    /\ dmDeleteReqs' = ds.deleteReqs
    /\ UNCHANGED <<now, histVars, apiVars, streamVars, dpErrors, genRuns, genLoading,
                   formVars, listVars, bootVars, debVars, feedVars>>

\* handleFileSelect reaches a file: uploadDocument starts
UploadStart(u) ==
    /\ dmUploads[u].pc = "idle"
    /\ \A j \in UploadIds : j < u => dmUploads[j].pc # "idle"
    /\ \E file \in FileNames : ApplyDm(UploadDocument(DmCur, u, file))

UploadFetchDone(u) ==
    /\ dmUploads[u].pc = "fetch"
    /\ \E rejected \in BOOLEAN, ok \in BOOLEAN :
           ApplyDm(UploadFetchSettled(DmCur, u, rejected, ok))

UploadJsonDone(u) ==
    /\ dmUploads[u].pc = "json"
    /\ \E parsed \in BOOLEAN : ApplyDm(UploadJsonSettled(DmCur, u, parsed))

\* a click on the delete button of a card, and the answer to confirm()
DeleteClick ==
    \E title \in FileNames, confirmed \in BOOLEAN :
        ApplyDm(DeleteDocument(DmCur, title, confirmed))

DmNext ==
    \/ \E u \in UploadIds : UploadStart(u)
    \/ \E u \in UploadIds : UploadFetchDone(u)
    \/ \E u \in UploadIds : UploadJsonDone(u)
    \/ DeleteClick

SpecDm == Init /\ [][DmNext]_vars

(***************************************************************************)
(* Page loads on a profile whose localStorage throws.                      *)
(***************************************************************************)
\* The constructor lets an exception escape: under "denied" at its first
\* localStorage.getItem, under "quota" at the setItem of generateSessionId,
\* which runs when no session id is stored. Neither has a try around it.
ConstructorThrows(mode, item) ==
    \/ mode = "denied"
    \/ mode = "quota" /\ ~TruthyString(item)

\* The DOMContentLoaded handler when new ChatInterface() throws: its catch
\* logs and appends the initialisation error message to #chatMessages;
\* window.chatInterface is never assigned and no object survives.
PageLoadFails ==
    /\ ConstructorThrows(storage, lsSessionId)
    /\ loads < MaxLoads
    /\ loads' = loads + 1
    /\ loaded' = FALSE
    /\ sessionId' = ""
    /\ cleared' = FALSE
    /\ genCalls' = IF storage = "quota" THEN genCalls + 1 ELSE genCalls
    /\ initErrors' = initErrors + 1
    /\ UNCHANGED <<now, lsChatHistory, lsSessionId, messages, loadThrew, apiVars,
                   streamVars, dpErrors, genRuns, genLoading, formVars, listVars,
                   storage, extVars>>

\* A fresh browser profile whose localStorage works, or throws
InitStorage ==
    /\ ProfileInit
    /\ storage \in StorageModes
    /\ initErrors = 0
    /\ ExtIdle
    /\ lsChatHistory = NoText
    /\ DpIdle

StorageNext == Next \/ PageLoadFails

SpecStorage == InitStorage /\ [][StorageNext]_vars

(***************************************************************************)
(* The polling and the sends of one page: the page has just been loaded on *)
(* a fresh profile.                                                        *)
(***************************************************************************)
ApiInit ==
    /\ StorageWorks
    /\ now = 1
    /\ lsChatHistory = NoText
    /\ lsSessionId = String("session_p")
    /\ loaded = TRUE
    /\ sessionId = "session_p"
    /\ messages = Arr(<<>>)
    /\ loads = 1
    /\ genCalls = 1
    /\ loadThrew = FALSE
    /\ cleared = FALSE
    /\ lsOfflineMode = NoString
    /\ offlineMode = FALSE
    /\ apiAvailable = Bool(FALSE)
    /\ lastApiCheck = 1
    /\ cacheHealth = Undef
    /\ sends = [k \in SendIds |-> IdleSend]
    /\ pendingChecks = 0
    /\ typing = 0
    /\ healthReqs = <<>>
    /\ checkCalls = <<>>
    /\ statusIndicator = "offline"
    /\ settles = <<[how |-> "threw", ret |-> Bool(FALSE)]>>
    /\ DpIdle

ApiNext ==
    \/ ApiTick
    \/ ToggleOfflineMode
    \/ ToggleCheckSettles
    \/ \E k \in SendIds : SendBody(k)
    \/ \E k \in SendIds : SendHealthDone(k)
    \/ \E k \in SendIds : SendPostDone(k)
    \/ \E k \in SendIds : SendJsonDone(k)

SpecApi == ApiInit /\ [][ApiNext]_vars

(***************************************************************************)
(* The debounce of handleSendMessage. The page clock counts 100 ms; now,   *)
(* the coarse clock of the polling, stands still during a burst.           *)
(***************************************************************************)
\* debounce(func, 300): the wait, in units of the page clock
DebounceWait == 3

\* the function debounce returns, invoked at time t as invocation inv:
\* clearTimeout(timeout); timeout = setTimeout(() => func.apply(...), wait).
\* The timer of the previous invocation is the only one that can be pending.
Debounced_NoClear(pending, inv, t) ==
    pending \cup {[inv |-> inv, due |-> t + DebounceWait]}

Debounced(pending, inv, t) ==
    {[inv |-> inv, due |-> t + DebounceWait]}

\* a click on the send button, or Enter in the input box
HandleSendMessage ==
    /\ loaded
    /\ Len(invocations) < MaxInvocations
    /\ invocations' = Append(invocations, clock)
    /\ timers' = Debounced(timers, Len(invocations) + 1, clock)
    /\ UNCHANGED <<now, histVars, apiVars, streamVars, dpErrors, genRuns, genLoading,
                   formVars, listVars, bootVars, clock, bodyRuns, feedVars, dmVars>>

\* a timer of the debounce fires, not before it is due: the send body runs
\* to its first suspension
DebounceTimerFires(k) ==
    /\ sends[k].pc = "idle"
    /\ \A j \in SendIds : j < k => sends[j].pc # "idle"
    /\ \E tm \in timers :
           /\ clock >= tm.due
           /\ timers' = timers \ {tm}
           /\ bodyRuns' = Append(bodyRuns, [at |-> clock, inv |-> tm.inv])
    /\ \E raw \in RawInputs :
           LET r == SendStart(Cur, raw, now) IN
               /\ ApplyPage(r.cs)
               /\ sends' = [sends EXCEPT ![k] = [pc |-> r.pc, outcome |-> r.outcome,
                                                 posts |-> r.posts]]
    /\ UNCHANGED <<now, lsSessionId, loaded, sessionId, loads, genCalls, loadThrew,
                   cleared, lsOfflineMode, offlineMode, pendingChecks, streamVars,
                   dpErrors, genRuns, genLoading, formVars, listVars, bootVars,
                   clock, invocations, feedVars, dmVars>>

\* 100 ms pass
ClockTick ==
    /\ clock < MaxDebClock
    /\ clock' = clock + 1
    /\ UNCHANGED <<now, histVars, apiVars, streamVars, dpErrors, genRuns, genLoading,
                   formVars, listVars, bootVars, timers, invocations, bodyRuns,
                   feedVars, dmVars>>

\* The page loaded on a fresh profile, just now or more than a polling
\* interval ago
DebInit ==
    /\ StorageWorks
    /\ now \in {1, 1 + apiCheckInterval}
    /\ lsChatHistory = NoText
    /\ lsSessionId = String("session_p")
    /\ loaded = TRUE
    /\ sessionId = "session_p"
    /\ messages = Arr(<<>>)
    /\ loads = 1
    /\ genCalls = 1
    /\ loadThrew = FALSE
    /\ cleared = FALSE
    /\ lsOfflineMode = NoString
    /\ offlineMode = FALSE
    /\ apiAvailable = Bool(FALSE)
    /\ lastApiCheck = 1
    /\ cacheHealth = Undef
    /\ sends = [k \in SendIds |-> IdleSend]
    /\ pendingChecks = 0
    /\ typing = 0
    /\ healthReqs = <<>>
    /\ checkCalls = <<>>
    /\ statusIndicator = "offline"
    /\ settles = <<[how |-> "threw", ret |-> Bool(FALSE)]>>
    /\ DpIdle

DebNext ==
    \/ ClockTick
    \/ HandleSendMessage
    \/ \E k \in SendIds : DebounceTimerFires(k)
    \/ \E k \in SendIds : SendHealthDone(k)
    \/ \E k \in SendIds : SendPostDone(k)
    \/ \E k \in SendIds : SendJsonDone(k)

SpecDebounce == DebInit /\ [][DebNext]_vars

(***************************************************************************)
(* The polling alone, over more than two polling intervals: the checks the *)
(* offline toggle starts on the page just loaded.                          *)
(***************************************************************************)
\* Time passes (polling runs)
PollTick ==
    /\ now < MaxPollClock
    /\ now' = now + 1
    /\ UNCHANGED <<histVars, apiVars, streamVars, dpErrors, docVars>>

PollNext == PollTick \/ ToggleOfflineMode \/ ToggleCheckSettles

SpecPoll == ApiInit /\ [][PollNext]_vars

(***************************************************************************)
(* ChatInterface: the list of conversations (chatHistory).  The clock      *)
(* counts in whole units; a conversation id is the clock value at which    *)
(* startNewChat ran.                                                       *)
(***************************************************************************)
\* .slice(0, 20)
HistoryCap == 20

\* the state of the list as a record
ListCur ==
    [cur |-> currentChatId, list |-> chatHistory, stored |-> lsChatList,
     dom |-> domChildren, bad |-> domMalformed, ever |-> everUpdated]

\* Date.now().toString()
NowToString(t) == ToString(t)

\* startNewChat: a new id from the clock, #chatMessages reset to the one
\* welcome message, then updateChatHistory, which returns at
\* messages.length <= 1
StartNewChat(hs, t) ==
    [hs EXCEPT !.cur = NowToString(t), !.dom = 1, !.bad = FALSE]

\* one more child of #chatMessages: with .message-content and
\* .message-timestamp (addMessageToChat), or without (displayChatMessage)
DomAppend(hs, wellFormed) ==
    [hs EXCEPT !.dom = IF @ < 2 THEN @ + 1 ELSE 2, !.bad = @ \/ ~wellFormed]

\* Array.prototype.sort with (a, b) => new Date(b.lastUpdated) -
\* new Date(a.lastUpdated): stable, latest first
RECURSIVE InsertByLastUpdated(_, _)
InsertByLastUpdated(sorted, e) ==
    IF sorted = <<>> THEN <<e>>
    ELSE IF Head(sorted).lastUpdated >= e.lastUpdated
         THEN <<Head(sorted)>> \o InsertByLastUpdated(Tail(sorted), e)
         ELSE <<e>> \o sorted

RECURSIVE SortByLastUpdated(_)
SortByLastUpdated(list) ==
    IF list = <<>> THEN <<>>
    ELSE InsertByLastUpdated(SortByLastUpdated(SubSeq(list, 1, Len(list) - 1)),
                             list[Len(list)])

\* .slice(0, n)
Slice(list, n) == SubSeq(list, 1, IF Len(list) < n THEN Len(list) ELSE n)

\* chatHistory.findIndex(chat => chat.id === this.currentChatId), 0 for -1
FindIndex(list, id) ==
    IF \E i \in DOMAIN list : list[i].id = id
    THEN CHOOSE i \in DOMAIN list :
             list[i].id = id /\ \A j \in DOMAIN list : list[j].id = id => i <= j
    ELSE 0

\* an update that keeps the whole sorted list
Truncate_KeepsAll(list) == list

\* .sort(...).slice(0, 20)
Truncate(list) == Slice(list, HistoryCap)

\* updateChatHistory at time t: a malformed child throws inside the try and
\* the catch only logs; at most one message returns; otherwise the entry of
\* the current conversation is replaced or pushed, the list sorted, cut and
\* stored under 'chatHistory'
UpdateChatHistory(hs, t) ==
    IF hs.bad \/ hs.dom <= 1 THEN hs
    ELSE LET entry == [id |-> hs.cur, lastUpdated |-> t, size |-> hs.dom]
             at == FindIndex(hs.list, hs.cur)
             put == IF at # 0 THEN [hs.list EXCEPT ![at] = entry]
                    ELSE Append(hs.list, entry)
             kept == Truncate(SortByLastUpdated(put))
         IN  [hs EXCEPT !.list = kept,
                        !.stored = [present |-> TRUE, entries |-> kept],
                        !.ever = {r \in @ : r.id # hs.cur} \cup {entry}]

\* loadChat(chat), the click on an item of the history list: the
\* conversation becomes the current one, its messages fill #chatMessages
LoadChat(hs, i) ==
    [hs EXCEPT !.cur = hs.list[i].id, !.dom = hs.list[i].size, !.bad = FALSE]

\* n conversations in a row, one per clock unit from 1 on: started, a
\* message added, recorded
RECURSIVE Conversations(_)
Conversations(n) ==
    IF n = 0 THEN IdleList
    ELSE UpdateChatHistory(DomAppend(StartNewChat(Conversations(n - 1), n), TRUE), n)

\* the list variables become what hs says
ApplyListVars(hs) ==
    /\ currentChatId' = hs.cur
    /\ chatHistory' = hs.list
    /\ lsChatList' = hs.stored
    /\ domChildren' = hs.dom
    /\ domMalformed' = hs.bad
    /\ everUpdated' = hs.ever
    /\ UNCHANGED <<now, histVars, apiVars, streamVars, dpErrors,
                   genRuns, genLoading, formVars, bootVars, extVars>>

ApplyList(hs) == ApplyListVars(hs) /\ UNCHANGED listSteps

StartNewChatClick == ApplyList(StartNewChat(ListCur, now))

DomChildAppended == \E wellFormed \in BOOLEAN : ApplyList(DomAppend(ListCur, wellFormed))

\* updateChatHistory called on window.chatInterface
UpdateChatHistoryCall == ApplyList(UpdateChatHistory(ListCur, now))

\* the items of the history list the runs click: the first and the last
LoadChatClick ==
    /\ chatHistory # <<>>
    /\ listSteps < MaxListSteps
    /\ listSteps' = listSteps + 1
    /\ \E i \in {1, Len(chatHistory)} : ApplyListVars(LoadChat(ListCur, i))

\* Time passes (history runs)
ListTick ==
    /\ listSteps < MaxListSteps
    /\ listSteps' = listSteps + 1
    /\ now' = now + 1
    /\ UNCHANGED <<histVars, apiVars, streamVars, dpErrors, genRuns, genLoading,
                   formVars, currentChatId, chatHistory, lsChatList, domChildren,
                   domMalformed, everUpdated, bootVars, extVars>>

\* A page on which some conversations have been held, and a new one has
\* just been started
ListInit ==
    /\ \E n \in {0, MaxPrior - 1, MaxPrior} :
           /\ now = n + 1
           /\ ListIs(StartNewChat(Conversations(n), n + 1))
    /\ listSteps = 0
    /\ StorageWorks
    /\ lsChatHistory = NoText
    /\ lsSessionId = String("session_p")
    /\ loaded = TRUE
    /\ sessionId = "session_p"
    /\ messages = Arr(<<>>)
    /\ loads = 1
    /\ genCalls = 1
    /\ loadThrew = FALSE
    /\ cleared = FALSE
    /\ lsOfflineMode = NoString
    /\ offlineMode = FALSE
    /\ apiAvailable = Bool(FALSE)
    /\ lastApiCheck = 1
    /\ cacheHealth = Undef
    /\ sends = [k \in SendIds |-> IdleSend]
    /\ pendingChecks = 0
    /\ typing = 0
    /\ healthReqs = <<>>
    /\ checkCalls = <<>>
    /\ statusIndicator = "offline"
    /\ settles = <<[how |-> "threw", ret |-> Bool(FALSE)]>>
    /\ newsSockets = <<>>
    /\ newsThrows = 0
    /\ ChatStreamIdle
    /\ FormsIdle

ListNext ==
    \/ ListTick
    \/ StartNewChatClick
    \/ DomChildAppended
    \/ UpdateChatHistoryCall
    \/ LoadChatClick

SpecList == ListInit /\ [][ListNext]_vars

(***************************************************************************)
(* The two streams of DocumentProcessor: the news socket with its          *)
(* reconnect timer and the live chat socket.  The clock counts in units of *)
(* 5 s, the delay of the reconnect timer.                                  *)
(***************************************************************************)
ReconnectDelay == 1

\* a WebSocket object just constructed by setupNewsWebSocket
NewNewsSocket == [state |-> "connecting", timer |-> "none", closedAt |-> 0, due |-> 0]

\* a WebSocket object just constructed by connectToLiveChatServer
NewChatSocket == [state |-> "connecting", errors |-> 0, timer |-> "none"]

\* the state of the news stream as a record
NewsCur == [sockets |-> newsSockets, throws |-> newsThrows]

\* setupNewsWebSocket: new WebSocket(...) and the three handlers; when the
\* constructor throws, the catch logs and nothing else happens
SetupNewsWebSocket(ns, ctorThrows) ==
    IF ctorThrows
    THEN [ns EXCEPT !.throws = @ + 1]
    ELSE [ns EXCEPT !.sockets = Append(@, NewNewsSocket)]

\* newsWebSocket.onclose: log, setTimeout(() => this.setupNewsWebSocket(), 5000)
NewsOnClose(sock, t) ==
    [sock EXCEPT !.state = "closed", !.timer = "pending", !.closedAt = t,
                 !.due = t + ReconnectDelay]

\* the news stream variables become what ns says
ApplyNews(ns) ==
    /\ newsSockets' = ns.sockets
    /\ newsThrows' = ns.throws
    /\ UNCHANGED <<now, histVars, apiVars, chatSockets, chatSocket, dpErrors, docVars>>

\* the connection of news socket i is established
NewsSocketOpens(i) ==
    /\ newsSockets[i].state = "connecting"
    /\ ApplyNews([NewsCur EXCEPT !.sockets[i].state = "open"])

\* news socket i closes (after a failed connection attempt, or when the
\* server or the network drops it) and its onclose handler runs
NewsSocketCloses(i) ==
    /\ newsSockets[i].state \in {"connecting", "open"}
    /\ ApplyNews([NewsCur EXCEPT !.sockets[i] = NewsOnClose(@, now)])

\* the timer set by the onclose handler of news socket i fires:
\* setupNewsWebSocket runs again
NewsReconnectTimerFires(i) ==
    /\ newsSockets[i].timer = "pending"
    /\ now >= newsSockets[i].due
    /\ Len(newsSockets) + newsThrows < MaxSockets
    /\ \E ctorThrows \in BOOLEAN :
           ApplyNews(SetupNewsWebSocket([NewsCur EXCEPT !.sockets[i].timer = "fired"],
                                        ctorThrows))

\* DocumentProcessor.showError: one more alert in .main-card
ShowError(n) == n + 1

\* the live chat variables become what is given
ApplyChat(socks, field, errs) ==
    /\ chatSockets' = socks
    /\ chatSocket' = field
    /\ dpErrors' = errs
    /\ UNCHANGED <<now, histVars, apiVars, newsSockets, newsThrows, docVars>>

\* initiateLiveChat (click on startLiveChatBtn): show the modal, then
\* connectToLiveChatServer: this.chatSocket = new WebSocket(...) and the
\* handlers; the catch shows an error
InitiateLiveChat ==
    /\ Len(chatSockets) < MaxSockets
    /\ \E ctorThrows \in BOOLEAN :
           IF ctorThrows
           THEN /\ dpErrors < MaxSockets
                /\ ApplyChat(chatSockets, chatSocket, ShowError(dpErrors))
           ELSE ApplyChat(Append(chatSockets, NewChatSocket), Len(chatSockets) + 1,
                          dpErrors)

\* the connection of chat socket i is established
ChatSocketOpens(i) ==
    /\ chatSockets[i].state = "connecting"
    /\ ApplyChat([chatSockets EXCEPT ![i].state = "open"], chatSocket, dpErrors)

\* chatSocket.onerror: showError('Chat error: ...'); the error event of a
\* socket is followed by its close event
ChatSocketErrors(i) ==
    /\ chatSockets[i].state \in {"connecting", "open"}
    /\ chatSockets[i].errors = 0
    /\ ApplyChat([chatSockets EXCEPT ![i].errors = 1], chatSocket,
                 ShowError(dpErrors))

\* chatSocket.onclose: showError('Chat connection closed. Please try again.')
ChatSocketCloses(i) ==
    /\ chatSockets[i].state \in {"connecting", "open"}
    /\ ApplyChat([chatSockets EXCEPT ![i].state = "closed"], chatSocket,
                 ShowError(dpErrors))

\* Time passes (stream runs)
StreamTick ==
    /\ now < MaxStreamClock
    /\ now' = now + 1
    /\ UNCHANGED <<histVars, apiVars, streamVars, dpErrors, docVars>>

\* The state after the DocumentProcessor constructor on a fresh profile,
\* before DOMContentLoaded: setupNewsFeatures has called setupNewsWebSocket
\* once
StreamInit ==
    /\ HistInit
    /\ lsChatHistory = NoText
    /\ ChatStreamIdle
    /\ DocIdle
    /\ \E ctorThrows \in BOOLEAN :
           LET ns == SetupNewsWebSocket([sockets |-> <<>>, throws |-> 0], ctorThrows) IN
               /\ newsSockets = ns.sockets
               /\ newsThrows = ns.throws

StreamNext ==
    \/ StreamTick
    \/ \E i \in DOMAIN newsSockets : NewsSocketOpens(i)
    \/ \E i \in DOMAIN newsSockets : NewsSocketCloses(i)
    \/ \E i \in DOMAIN newsSockets : NewsReconnectTimerFires(i)
    \/ InitiateLiveChat
    \/ \E i \in DOMAIN chatSockets : ChatSocketOpens(i)
    \/ \E i \in DOMAIN chatSockets : ChatSocketErrors(i)
    \/ \E i \in DOMAIN chatSockets : ChatSocketCloses(i)

SpecStream == StreamInit /\ [][StreamNext]_vars

(***************************************************************************)
(* DocumentProcessor: the news feed.                                       *)
(***************************************************************************)
\* the news fields and the feed as a record
FeedCur ==
    [page |-> newsPage, loading |-> newsLoading, hasMore |-> newsHasMore,
     filter |-> newsFilter, feed |-> newsFeed, loads |-> newsLoads,
     reqs |-> newsReqs, button |-> formLoading["news"], errors |-> dpErrors]

\* the fields before the constructor assigns them: undefined, which is
\* falsy where loadNewsFeed tests it
Unassigned ==
    [page |-> 0, loading |-> FALSE, hasMore |-> FALSE, filter |-> "all",
     feed |-> <<>>, loads |-> [l \in FeedLoadIds |-> IdleLoad], reqs |-> <<>>,
     button |-> FALSE, errors |-> 0]

\* loadNewsFeed, as execution l, up to its first await
LoadNewsFeed(fs, l) ==
    IF fs.loading \/ ~fs.hasMore
    THEN [fs EXCEPT !.loads[l] = [pc |-> "done", filter |-> fs.filter,
                                  page |-> fs.page, skipped |-> TRUE]]
    ELSE [fs EXCEPT !.loading = TRUE, !.button = TRUE,
                    !.reqs = Append(@, [page |-> fs.page, filter |-> fs.filter]),
                    !.loads[l] = [pc |-> "fetch", filter |-> fs.filter,
                                  page |-> fs.page, skipped |-> FALSE]]

\* finally of loadNewsFeed: newsLoading = false; hideLoading('loadMoreNews')
NewsLoadFinally(fs, l) ==
    [fs EXCEPT !.loading = FALSE, !.button = FALSE, !.loads[l].pc = "done"]

\* catch of loadNewsFeed: showError, then the finally
NewsLoadCatch(fs, l) == NewsLoadFinally([fs EXCEPT !.errors = ShowError(@)], l)

\* the fetch of execution l has settled
NewsFetchSettled(fs, l, rejected) ==
    IF rejected THEN NewsLoadCatch(fs, l) ELSE [fs EXCEPT !.loads[l].pc = "json"]

\* response.json() of execution l has settled: displayNewsItems(result.news);
\* newsHasMore = result.has_more; newsPage++
NewsJsonSettled(fs, l, parsed, hasMore) ==
    IF ~parsed THEN NewsLoadCatch(fs, l)
    ELSE NewsLoadFinally(
             [fs EXCEPT !.feed = Append(@, [page |-> fs.loads[l].page,
                                           filter |-> fs.loads[l].filter]),
                        !.hasMore = hasMore,
                        !.page = @ + 1], l)

\* filterNews after the selects have taken the value v
FilterNews(fs, v, l) ==
    LoadNewsFeed([fs EXCEPT !.filter = v, !.feed = <<>>, !.page = 1,
                            !.hasMore = TRUE], l)

\* the constructor of DocumentProcessor: setupNewsFeatures calls
\* loadNewsFeed (and setupNewsWebSocket), then newsPage = 1,
\* newsLoading = false, newsHasMore = true are assigned
ConstructProcessor(fs, l) ==
    [LoadNewsFeed(fs, l) EXCEPT !.page = 1, !.loading = FALSE, !.hasMore = TRUE]

\* the news variables become what fs says
ApplyFeed(fs) ==
    /\ newsPage' = fs.page
    /\ newsLoading' = fs.loading
    /\ newsHasMore' = fs.hasMore
    /\ newsFilter' = fs.filter
    /\ newsFeed' = fs.feed
    /\ newsLoads' = fs.loads
    /\ newsReqs' = fs.reqs
    /\ formLoading' = [formLoading EXCEPT !["news"] = fs.button]
    /\ dpErrors' = fs.errors
    /\ UNCHANGED <<now, histVars, apiVars, chatSockets, chatSocket, genRuns,
                   genLoading, formRuns, listVars, bootVars, debVars, dmVars>>

\* the script constructs the DocumentProcessor
NewProcessor ==
    /\ ~dpBuilt
    /\ dpBuilt' = TRUE
    /\ ApplyFeed(ConstructProcessor(FeedCur, 1))
    /\ \E ctorThrows \in BOOLEAN :
           LET ns == SetupNewsWebSocket([sockets |-> <<>>, throws |-> 0], ctorThrows) IN
               /\ newsSockets' = ns.sockets
               /\ newsThrows' = ns.throws

\* the user changes a news filter
FilterChange(l) ==
    /\ dpBuilt
    /\ newsLoads[l].pc = "idle"
    /\ \A j \in FeedLoadIds : j < l => newsLoads[j].pc # "idle"
    /\ \E v \in NewsFilters \ {newsFilter} : ApplyFeed(FilterNews(FeedCur, v, l))
    /\ UNCHANGED <<dpBuilt, newsSockets, newsThrows>>

NewsFetchDone(l) ==
    /\ newsLoads[l].pc = "fetch"
    /\ \E rejected \in BOOLEAN : ApplyFeed(NewsFetchSettled(FeedCur, l, rejected))
    /\ UNCHANGED <<dpBuilt, newsSockets, newsThrows>>

NewsJsonDone(l) ==
    /\ newsLoads[l].pc = "json"
    /\ \E parsed \in BOOLEAN, hasMore \in BOOLEAN :
           ApplyFeed(NewsJsonSettled(FeedCur, l, parsed, hasMore))
    /\ UNCHANGED <<dpBuilt, newsSockets, newsThrows>>

\* The script has not yet constructed the DocumentProcessor
FeedInit ==
    /\ ProfileInit
    /\ lsChatHistory = NoText
    /\ storage = "ok"
    /\ initErrors = 0
    /\ DebIdle
    /\ DmIdle
    /\ dpBuilt = FALSE
    /\ newsPage = Unassigned.page
    /\ newsLoading = Unassigned.loading
    /\ newsHasMore = Unassigned.hasMore
    /\ newsFilter = Unassigned.filter
    /\ newsFeed = <<>>
    /\ newsLoads = Unassigned.loads
    /\ newsReqs = <<>>
    /\ newsSockets = <<>>
    /\ newsThrows = 0
    /\ ChatStreamIdle
    /\ ListIs(IdleList)
    /\ listSteps = 0
    /\ genRuns = [k \in GenIds |-> IdleGen]
    /\ genLoading = FALSE
    /\ formRuns = [f \in FormIds |-> IdleForm]
    /\ formLoading = [c \in FormControllers |-> FALSE]

FeedNext ==
    \/ NewProcessor
    \/ \E l \in FeedLoadIds : FilterChange(l)
    \/ \E l \in FeedLoadIds : NewsFetchDone(l)
    \/ \E l \in FeedLoadIds : NewsJsonDone(l)

SpecFeed == FeedInit /\ [][FeedNext]_vars

(***************************************************************************)
(* Document generation: the click handler of the generate-document button. *)
(***************************************************************************)
TemplateKeys == {"", "nda", "will"}

Jurisdictions == {"", "us"}

Languages == {"", "hi"}

FieldValues == {"", "v"}

\* DocumentProcessor.currentLanguage on a fresh profile
CurrentLanguage == "en"

\* getTemplateParameters: the ids of the parameters of a template, in order
GetTemplateParameters(templateKey) ==
    CASE templateKey = "nda" ->
             <<"party1", "party2", "confidentiality_period", "purpose">>
      [] templateKey = "will" ->
             <<"testator_name", "executor_name", "beneficiaries", "assets">>
      [] OTHER -> <<>>

ParamIds(templateKey) ==
    {GetTemplateParameters(templateKey)[n] :
         n \in DOMAIN GetTemplateParameters(templateKey)}

\* the forEach over the parameters throws at the first field without a value
MissingField(templateKey, fields) ==
    \E n \in DOMAIN GetTemplateParameters(templateKey) :
        fields[GetTemplateParameters(templateKey)[n]] = ""

\* a body that carries the template and no parameters
GenerateBody_NoParameters(templateKey, jurisdiction, language, fields) ==
    [NoBody EXCEPT !.template_key = templateKey, !.jurisdiction = jurisdiction]

\* the body of the POST to /document/generate
GenerateBody(templateKey, jurisdiction, language, fields) ==
    [template_key |-> templateKey,
     jurisdiction |-> jurisdiction,
     language |-> IF language # "" THEN language ELSE CurrentLanguage,
     parameters |-> [id \in ParamIds(templateKey) |-> fields[id]]]

\* handleDocumentGeneration up to its first await: the run it leaves, and
\* whether the button is left in loading state
HandleDocumentGeneration(templateKey, jurisdiction, language, fields) ==
    LET run == [IdleGen EXCEPT !.templateKey = templateKey,
                               !.jurisdiction = jurisdiction,
                               !.language = language, !.fields = fields] IN
    IF templateKey = "" \/ jurisdiction = ""
    THEN [run |-> [run EXCEPT !.pc = "done", !.banners = 1], loading |-> FALSE]
    ELSE IF MissingField(templateKey, fields)
    THEN [run |-> [run EXCEPT !.pc = "done", !.threw = TRUE], loading |-> FALSE]
    ELSE [run |-> [run EXCEPT !.pc = "fetch", !.requests = 1,
                              !.body = GenerateBody(templateKey, jurisdiction,
                                                    language, fields)],
          loading |-> TRUE]

\* the values of the fields of the form rendered for a template
FormFields(templateKey) ==
    {[id \in FieldIds |-> IF id \in ParamIds(templateKey) THEN vals[id] ELSE ""] :
         vals \in [ParamIds(templateKey) -> FieldValues]}

\* the document variables become what is given
ApplyGen(g, run, loading) ==
    /\ genRuns' = [genRuns EXCEPT ![g] = run]
    /\ genLoading' = loading
    /\ dpErrors' = dpErrors + (run.banners - genRuns[g].banners)
    /\ UNCHANGED <<now, histVars, apiVars, streamVars, formVars, listVars, bootVars,
                   extVars>>

\* a click on generate-document; a button in loading state is disabled and
\* dispatches no click
GenerateClick(g) ==
    /\ ~genLoading
    /\ genRuns[g].pc = "idle"
    /\ \A h \in GenIds : h < g => genRuns[h].pc # "idle"
    /\ \E templateKey \in TemplateKeys, jurisdiction \in Jurisdictions,
          language \in Languages :
           \E fields \in FormFields(templateKey) :
               LET r == HandleDocumentGeneration(templateKey, jurisdiction,
                                                 language, fields) IN
                   ApplyGen(g, r.run, r.loading)

\* the catch and the finally of handleDocumentGeneration
GenerateCatch(run) == [run EXCEPT !.pc = "done", !.banners = @ + 1]

\* the fetch of run g settles: a rejection goes to the catch, then finally
\* hideLoading; otherwise response.json() is awaited
GenerateFetchDone(g) ==
    /\ genRuns[g].pc = "fetch"
    /\ \E rejected \in BOOLEAN :
           IF rejected
           THEN ApplyGen(g, GenerateCatch(genRuns[g]), FALSE)
           ELSE ApplyGen(g, [genRuns[g] EXCEPT !.pc = "json"], genLoading)

\* response.json() of run g settles: a rejection, or a result of which
\* displayGeneratedDocument cannot read .document, goes to the catch;
\* otherwise the document is displayed; finally hideLoading
GenerateJsonDone(g) ==
    /\ genRuns[g].pc = "json"
    /\ \E failed \in BOOLEAN :
           IF failed
           THEN ApplyGen(g, GenerateCatch(genRuns[g]), FALSE)
           ELSE ApplyGen(g, [genRuns[g] EXCEPT !.pc = "done"], FALSE)

\* The state after the DocumentProcessor constructor, news socket connecting
DocInit ==
    /\ HistInit
    /\ lsChatHistory = NoText
    /\ ChatStreamIdle
    /\ DocIdle
    /\ newsSockets = <<NewNewsSocket>>
    /\ newsThrows = 0

DocNext ==
    \/ \E g \in GenIds : GenerateClick(g)
    \/ \E g \in GenIds : GenerateFetchDone(g)
    \/ \E g \in GenIds : GenerateJsonDone(g)

SpecDoc == DocInit /\ [][DocNext]_vars

(***************************************************************************)
(* The other handlers with a loading state: document analysis, monitoring  *)
(* registration, update check, expert match, appointment booking, news     *)
(* load and FAQ search.                                                    *)
(***************************************************************************)
\* the values of a text input explored
FormValues == {"", " ", "v"}

\* the inputs a handler requires, in the order it checks them
RequiredInputs(c) ==
    CASE c = "analysis" -> <<"document-text">>
      [] c = "monitoring" -> <<"monitor-document-text", "legal-areas">>
      [] c = "updates" -> <<"document-id">>
      [] c = "expert" -> <<"caseCategorySelect", "caseDescription">>
      [] c = "booking" -> <<"lawyerSelect", "appointmentDate", "appointmentTime">>
      [] c = "faq" -> <<"faqSearchInput">>
      [] OTHER -> <<>>

\* the handlers that trim an input before they test it
TrimsInputs(c) == c \in {"analysis", "monitoring", "faq"}

\* the test of the handler finds a required input missing
InputMissing(c, inputs) ==
    \E n \in DOMAIN inputs :
        (IF TrimsInputs(c) THEN Trim(inputs[n]) ELSE inputs[n]) = ""

\* the handlers that return without a message: handleFaqSearch on an empty
\* query, loadNewsFeed while a load is running
ReturnsSilently(c) == c \in {"faq", "news"}

\* the control of the handler is a button, which dispatches no click while
\* showLoading has it disabled (searchResults is not; the news load is
\* started by the change of a filter)
DisabledWhileLoading(c) == c \notin {"faq", "news"}

\* the state of the handlers as a record
FormCur ==
    [runs |-> formRuns, loading |-> formLoading, newsLoading |-> newsLoading,
     newsHasMore |-> newsHasMore, errors |-> dpErrors]

\* showLoading / hideLoading of the control of handler c
ShowLoading(fs, c) == [fs EXCEPT !.loading[c] = TRUE]

HideLoading(fs, c) == [fs EXCEPT !.loading[c] = FALSE]

\* a finally block that leaves the control as it is
FormFinally_NoHide(fs, f) == [fs EXCEPT !.runs[f].pc = "done"]

\* the finally block of the handler of run f: hideLoading, and for the news
\* load newsLoading = false
FormFinally(fs, f) ==
    LET c == fs.runs[f].ctl
        hidden == HideLoading([fs EXCEPT !.runs[f].pc = "done"], c)
    IN  IF c = "news" THEN [hidden EXCEPT !.newsLoading = FALSE] ELSE hidden

\* the catch block of the handler of run f: showError, then the finally
FormCatch(fs, f) ==
    FormFinally([fs EXCEPT !.runs[f].banners = @ + 1, !.errors = ShowError(@)], f)

\* a handler that sends its request without testing its inputs
StartHandler_NoValidation(fs, f, c, inputs) ==
    ShowLoading([fs EXCEPT !.runs[f] = [pc |-> "fetch", ctl |-> c, inputs |-> inputs,
                                        requests |-> 1, banners |-> 0]], c)

\* the handler of c up to its first await, as run f with the given inputs:
\* the validation, then showLoading and the request
StartHandler(fs, f, c, inputs) ==
    LET run == [pc |-> "done", ctl |-> c, inputs |-> inputs, requests |-> 0,
                banners |-> 0]
    IN
    IF c = "news" /\ (fs.newsLoading \/ ~fs.newsHasMore)
    THEN [fs EXCEPT !.runs[f] = run]
    ELSE IF InputMissing(c, inputs)
    THEN IF ReturnsSilently(c)
         THEN [fs EXCEPT !.runs[f] = run]
         ELSE [fs EXCEPT !.runs[f] = [run EXCEPT !.banners = 1],
                         !.errors = ShowError(@)]
    ELSE LET begun == ShowLoading([fs EXCEPT !.runs[f] =
                                       [run EXCEPT !.pc = "fetch", !.requests = 1]], c)
         IN  IF c = "news" THEN [begun EXCEPT !.newsLoading = TRUE] ELSE begun

\* the form variables become what fs says
ApplyForm(fs) ==
    /\ formRuns' = fs.runs
    /\ formLoading' = fs.loading
    /\ newsLoading' = fs.newsLoading
    /\ newsHasMore' = fs.newsHasMore
    /\ dpErrors' = fs.errors
    /\ UNCHANGED <<now, histVars, apiVars, streamVars, genRuns, genLoading, listVars,
                   bootVars, extVars>>

\* the user triggers the handler of c (a click, or for the news load the
\* change of a filter: filterNews sets newsHasMore = true and calls
\* loadNewsFeed).  The runs explored are runs of one handler, the later
\* one during or after the earlier one: runs of different handlers share
\* no control.
FormSubmit(f) ==
    /\ formRuns[f].pc = "idle"
    /\ \A h \in FormIds : h < f => formRuns[h].pc # "idle"
    /\ \E c \in FormControllers :
           /\ \A h \in FormIds : h < f => formRuns[h].ctl = c
           /\ DisabledWhileLoading(c) => ~formLoading[c]
           /\ \E inputs \in [DOMAIN RequiredInputs(c) -> FormValues] :
                  ApplyForm(StartHandler(
                      IF c = "news" THEN [FormCur EXCEPT !.newsHasMore = TRUE]
                      ELSE FormCur, f, c, inputs))

\* the fetch of run f settles: a rejection goes to the catch; handleFaqSearch
\* throws on a response that is not ok; otherwise response.json() is awaited
FormFetchDone(f) ==
    /\ formRuns[f].pc = "fetch"
    /\ \E rejected \in BOOLEAN, ok \in BOOLEAN :
           IF rejected \/ (formRuns[f].ctl = "faq" /\ ~ok)
           THEN ApplyForm(FormCatch(FormCur, f))
           ELSE ApplyForm([FormCur EXCEPT !.runs[f].pc = "json"])

\* response.json() of run f settles and the result is displayed: a rejection
\* or a throwing display goes to the catch; bookAppointment always throws at
\* getElementById('appointmentModal').modal('hide'); the news load stores
\* result.has_more
FormJsonDone(f) ==
    /\ formRuns[f].pc = "json"
    /\ \E failed \in BOOLEAN, hasMore \in BOOLEAN :
           IF failed \/ formRuns[f].ctl = "booking"
           THEN ApplyForm(FormCatch(FormCur, f))
           ELSE ApplyForm(FormFinally(
                    IF formRuns[f].ctl = "news"
                    THEN [FormCur EXCEPT !.newsHasMore = hasMore] ELSE FormCur, f))

FormNext ==
    \/ \E f \in FormIds : FormSubmit(f)
    \/ \E f \in FormIds : FormFetchDone(f)
    \/ \E f \in FormIds : FormJsonDone(f)
    \/ GenerateClick(1)
    \/ GenerateFetchDone(1)
    \/ GenerateJsonDone(1)

SpecForms == DocInit /\ [][FormNext]_vars

(***************************************************************************)
(* The same program on a profile whose 'chat_history' entry is corrupted.  *)
(***************************************************************************)
JunkTok == Tok("junk", "x")
StoredMessage(role, content) ==
    <<LBrace, Tok("str", "role"), Colon, Tok("str", role), Comma,
      Tok("str", "content"), Colon, Tok("str", content), Comma,
      Tok("str", "timestamp"), Colon, Tok("str", "T0"), RBrace>>

CorruptTexts ==
    { <<LBracket>>,                                       \* [
      <<LBrace, JunkTok>>,                                \* {x
      <<LBracket>> \o StoredMessage("user", "hi"),        \* [{...}   (cut short)
      <<LBrace, RBrace>>,                                 \* {}
      <<Tok("num", "5")>>,                                \* 5
      <<NullTok>>,                                        \* null
      <<Tok("str", "hi")>>,                               \* "hi"
      <<LBracket, NullTok, RBracket>>,                    \* [null]
      <<LBracket, Tok("num", "1"), RBracket>>,            \* [1]
      <<LBracket, LBrace, RBrace, RBracket>>,             \* [{}]
      <<LBracket>> \o StoredMessage("user", "hi")
          \o <<Comma, NullTok, RBracket>> }               \* [{...},null]

InitCorrupt ==
    /\ HistInit
    /\ lsChatHistory \in {Text(c) : c \in CorruptTexts}
    /\ DpIdle

SpecCorrupt == InitCorrupt /\ [][Next]_vars

(***************************************************************************)
(* Vocabulary of the properties.                                           *)
(***************************************************************************)
\* the {role, content} pairs of a transcript value
RoleContentPairs(v) ==
    IF v.t # "arr" THEN <<>>
    ELSE [i \in 1..Len(v.items) |->
             IF PropThrows(v.items[i]) THEN <<Undef, Undef>>
             ELSE <<Prop(v.items[i], "role"), Prop(v.items[i], "content")>>]

\* the transcript a stored item holds
StoredTranscript(item) ==
    IF TruthyText(item) /\ JsonParse(item.text).ok
    THEN JsonParse(item.text).val ELSE Arr(<<>>)

IsStr(v) == v.t = "str"
WellFormedMessage(v) ==
    /\ v.t = "obj"
    /\ IsStr(Prop(v, "role")) /\ IsStr(Prop(v, "content")) /\ IsStr(Prop(v, "timestamp"))

\* a stored item that is a serialized array of well-formed messages
WellFormedTranscript(item) ==
    /\ TruthyText(item)
    /\ JsonParse(item.text).ok
    /\ LET v == JsonParse(item.text).val IN
           /\ v.t = "arr"
           /\ \A i \in 1..Len(v.items) : WellFormedMessage(v.items[i])

CorruptedEntry(item) == TruthyText(item) /\ ~WellFormedTranscript(item)
Unparseable(item)    == TruthyText(item) /\ ~JsonParse(item.text).ok

IsPageLoad == loads' = loads + 1

(***************************************************************************)
(* C1.  A page load reproduces the persisted transcript: the {role,        *)
(* content} pairs in memory after the load, and those stored after the     *)
(* load, are the pairs that were stored before it, in the same order,      *)
(* none added, dropped or duplicated.                                      *)
(***************************************************************************)
C1_ReloadReproducesTranscript ==
    [][IsPageLoad =>
          /\ RoleContentPairs(messages')
               = RoleContentPairs(StoredTranscript(lsChatHistory))
          /\ RoleContentPairs(StoredTranscript(lsChatHistory'))
               = RoleContentPairs(StoredTranscript(lsChatHistory))]_vars

(***************************************************************************)
(* C2.  The session id is stable across reloads: a page load that follows  *)
(* an earlier load with no storage clear in between ends with the same     *)
(* sessionId, does not run generateSessionId, and the id of the page is    *)
(* the one stored under 'chat_session_id'.                                 *)
(***************************************************************************)
C2_SessionIdStable ==
    /\ [](loaded /\ ~cleared => lsSessionId = String(sessionId))
    /\ [][IsPageLoad /\ loaded /\ ~cleared =>
             /\ sessionId' = sessionId
             /\ genCalls' = genCalls
             /\ lsSessionId' = lsSessionId]_vars
    /\ [][IsPageLoad /\ genCalls' # genCalls => ~TruthyString(lsSessionId)]_vars

\* a second load on the id the first load generated
C2_Witness ==
    /\ loads = 2 /\ genCalls = 1 /\ ~cleared
    /\ lsSessionId = String(sessionId)

(***************************************************************************)
(* C3.  A load that finds a corrupted 'chat_history' entry (anything but a *)
(* serialized array of well-formed messages) does not throw and leaves     *)
(* this.messages empty.                                                    *)
(***************************************************************************)
C3_CorruptLoadLeavesEmpty ==
    [][IsPageLoad /\ CorruptedEntry(lsChatHistory) =>
          /\ ~loadThrew'
          /\ messages' = Arr(<<>>)]_vars

(***************************************************************************)
(* C4.  A load whose deserialization of 'chat_history' fails removes the   *)
(* corrupted entry: after the load the corrupted text is no longer stored. *)
(***************************************************************************)
C4_CorruptEntryCleared ==
    [][IsPageLoad /\ Unparseable(lsChatHistory) =>
          lsChatHistory' # lsChatHistory]_vars


(***************************************************************************)
(* C7.  Health polling is throttled: no two fetches of the health endpoint *)
(* lie within apiCheckInterval of each other, and when the first two       *)
(* checkApiAvailability calls made on a freshly constructed ChatInterface  *)
(* are 5 s (one clock unit) apart, exactly one fetch of the health         *)
(* endpoint has been made by then.                                         *)
(***************************************************************************)
HealthRequestsSpaced ==
    \A i, j \in DOMAIN healthReqs :
        i < j => healthReqs[j] - healthReqs[i] >= apiCheckInterval

TwoCallsFiveSecondsApart ==
    Len(checkCalls) >= 2 /\ checkCalls[2] = checkCalls[1] + 1

HealthRequestsUpTo(t) ==
    Cardinality({i \in DOMAIN healthReqs : healthReqs[i] <= t})

C7_HealthPollingThrottled ==
    /\ HealthRequestsSpaced
    /\ TwoCallsFiveSecondsApart => HealthRequestsUpTo(checkCalls[2]) = 1

(***************************************************************************)
(* C10.  When the network fails during a send (the health fetch made for   *)
(* the send or the POST rejects, or the reply cannot be read), the step    *)
(* that ends the send appends exactly one assistant message carrying a     *)
(* generic retry-later notice, leaves apiAvailable false and issues no     *)
(* further POST; no execution of the send body issues more than one POST.  *)
(***************************************************************************)
NetworkFailureOutcomes == {"offline_unreachable", "post_rejected", "json_failed"}
RetryLaterNotices == {Str(OfflineNotice), Str(ErrorNotice)}
LastItem(v) == v.items[Len(v.items)]

SendEndsWith(k, outcomes) ==
    /\ sends[k].pc # "done"
    /\ sends'[k].pc = "done"
    /\ sends'[k].outcome \in outcomes

C10_SendFailureReported ==
    /\ [][\A k \in SendIds :
            SendEndsWith(k, NetworkFailureOutcomes) =>
               /\ apiAvailable' = Bool(FALSE)
               /\ Len(messages'.items) = Len(messages.items) + 1
               /\ messages'.items = Append(messages.items, LastItem(messages'))
               /\ Prop(LastItem(messages'), "role") = Str("assistant")
               /\ Prop(LastItem(messages'), "content") \in RetryLaterNotices
               /\ sends'[k].posts = sends[k].posts]_vars
    /\ [](\A k \in SendIds : sends[k].posts <= 1)

\* a send whose POST was issued and then rejected
C10_Witness ==
    \E k \in SendIds :
        /\ sends[k].pc = "done"
        /\ sends[k].outcome = "post_rejected"
        /\ sends[k].posts = 1
        /\ apiAvailable = Bool(FALSE)

(***************************************************************************)
(* The streams.                                                            *)
(***************************************************************************)
\* the sockets of a stream that have not closed
LiveSockets(socks) == {i \in DOMAIN socks : socks[i].state # "closed"}

ClosedSockets(socks) == {i \in DOMAIN socks : socks[i].state = "closed"}

\* a reconnect of the news stream is scheduled and has not run yet
NewsReconnectPending == \E i \in DOMAIN newsSockets : newsSockets[i].timer = "pending"

\* setupNewsWebSocket calls after the one of the constructor
NewsFurtherOpens == Len(newsSockets) + newsThrows - 1

\* every closure of a news socket has scheduled one reconnect, due the fixed
\* delay after the closure, and every reconnect that ran was an open attempt
NewsClosuresScheduleReconnect ==
    /\ \A i \in ClosedSockets(newsSockets) :
           /\ newsSockets[i].timer # "none"
           /\ newsSockets[i].due = newsSockets[i].closedAt + ReconnectDelay
    /\ Cardinality(ClosedSockets(newsSockets))
           = NewsFurtherOpens
             + Cardinality({i \in DOMAIN newsSockets : newsSockets[i].timer = "pending"})

\* a step in which a news socket closes or setupNewsWebSocket runs
NewsClosureOrAttempt ==
    \/ ClosedSockets(newsSockets') # ClosedSockets(newsSockets)
    \/ Len(newsSockets') # Len(newsSockets)
    \/ newsThrows' # newsThrows

\* C5: the news stream reconnects forever: every closure schedules a further
\* open attempt the fixed 5 s later, and no closure and no failed open
\* attempt leaves the client without a live socket and without a reconnect
\* pending
C5_NewsReconnectsForever ==
    /\ []NewsClosuresScheduleReconnect
    /\ [][NewsClosureOrAttempt =>
              (LiveSockets(newsSockets') # {} \/ NewsReconnectPending')]_vars

\* C6: each stream client has at most one socket that has not closed
C6_OneLiveSocketPerStream ==
    /\ Cardinality(LiveSockets(newsSockets)) <= 1
    /\ Cardinality(LiveSockets(chatSockets)) <= 1

NewsAtMostOneLive == Cardinality(LiveSockets(newsSockets)) <= 1

(***************************************************************************)
(* Document generation.                                                    *)
(***************************************************************************)
\* run g has passed the synchronous part of handleDocumentGeneration
Submitted(g) == genRuns[g].pc # "idle"

\* run g was submitted with the NDA template selected
NdaSubmitted(g) == Submitted(g) /\ genRuns[g].templateKey = "nda"

NdaAllPopulated(g) == \A id \in NdaFieldIds : genRuns[g].fields[id] # ""

\* run g issued exactly one generation request, for the NDA template, with
\* exactly the four values of the form as parameters
OneNdaRequest(g) ==
    /\ genRuns[g].requests = 1
    /\ genRuns[g].body.template_key = "nda"
    /\ DOMAIN genRuns[g].body.parameters = NdaFieldIds
    /\ \A id \in NdaFieldIds : genRuns[g].body.parameters[id] = genRuns[g].fields[id]

\* C8, as stated: submitting the NDA template with its four fields
\* populated issues exactly one generation request with template_key "nda"
\* and the four values as parameters
C8_NdaSubmitIssuesOneRequest ==
    \A g \in GenIds : (NdaSubmitted(g) /\ NdaAllPopulated(g)) => OneNdaRequest(g)

\* C8, amended: the same, when a jurisdiction is selected as well
C8_NdaSubmitWithJurisdiction ==
    \A g \in GenIds :
        (NdaSubmitted(g) /\ NdaAllPopulated(g) /\ genRuns[g].jurisdiction # "")
            => OneNdaRequest(g)

C8_Witness ==
    \E g \in GenIds :
        /\ NdaSubmitted(g) /\ NdaAllPopulated(g) /\ genRuns[g].jurisdiction # ""
        /\ genRuns[g].pc = "done"
        /\ OneNdaRequest(g)

\* C9: submitting the NDA template with one of the four fields empty issues
\* no request and shows a validation message as an error banner, not as an
\* uncaught failure
C9_NdaMissingFieldRejected ==
    \A g \in GenIds :
        (NdaSubmitted(g) /\ ~NdaAllPopulated(g))
            => /\ genRuns[g].requests = 0
               /\ genRuns[g].banners = 1
               /\ ~genRuns[g].threw

\* the part of C9 that holds: no request is issued
NdaMissingFieldNoRequest ==
    \A g \in GenIds :
        (NdaSubmitted(g) /\ ~NdaAllPopulated(g)) => genRuns[g].requests = 0

(***************************************************************************)
(* The reachability flag.                                                  *)
(***************************************************************************)
\* the entry the step adds to the log of ended checks
CheckEnds == Len(settles') = Len(settles) + 1

EndedCheck == settles'[Len(settles')]

\* C11: a network error during checkApiAvailability is not propagated: the
\* call returns false, apiAvailable is false afterwards and the status
\* indicator shows offline
C11_NetworkErrorMeansUnreachable ==
    [][(CheckEnds /\ EndedCheck.how = "rejected")
           => /\ EndedCheck.ret = Bool(FALSE)
              /\ apiAvailable' = Bool(FALSE)
              /\ statusIndicator' = "offline"]_vars

C11_Witness ==
    /\ settles # <<>>
    /\ settles[Len(settles)].how = "rejected"
    /\ Len(healthReqs) > 0
    /\ apiAvailable = Bool(FALSE)
    /\ statusIndicator = "offline"

\* C12: apiAvailable is a boolean; it is true after a health check whose
\* response arrived, and a check outside the throttle window asks the backend
\* again instead of repeating an earlier answer
C12_FlagFollowsBackend ==
    /\ [](apiAvailable \in {Bool(TRUE), Bool(FALSE)})
    /\ [][(CheckEnds /\ EndedCheck.how = "answered") => apiAvailable' = Bool(TRUE)]_vars
    /\ [][CheckEnds => EndedCheck.how # "cached"]_vars

\* the parts of C12, one by one
FlagIsBoolean == apiAvailable \in {Bool(TRUE), Bool(FALSE)}

NoCheckFromCache == \A n \in DOMAIN settles : settles[n].how # "cached"

(***************************************************************************)
(* Loading states and validation of the form handlers.                     *)
(***************************************************************************)
\* a run of handler c is between its request and its completion
FormInFlight(c) ==
    \E f \in FormIds : formRuns[f].ctl = c /\ formRuns[f].pc \in {"fetch", "json"}

GenerationInFlight == \E g \in GenIds : genRuns[g].pc \in {"fetch", "json"}

\* C13: no handler run ends with its control still in loading state: a
\* control (and the newsLoading flag) is in loading state only while a run
\* of its handler is between its request and its completion, whether that
\* run ends in the success or in the failure branch
C13_LoadingClearedOnCompletion ==
    /\ \A c \in FormControllers : formLoading[c] => FormInFlight(c)
    /\ newsLoading => FormInFlight("news")
    /\ genLoading => GenerationInFlight

\* one run has ended in the failure branch and one in the success branch
C13_Witness ==
    /\ formRuns[1].pc = "done" /\ formRuns[1].requests = 1 /\ formRuns[1].banners = 1
    /\ formRuns[2].pc = "done" /\ formRuns[2].requests = 1 /\ formRuns[2].banners = 0
    /\ ~formLoading[formRuns[1].ctl]
    /\ genRuns[1].pc = "done" /\ genRuns[1].requests = 1 /\ ~genLoading

\* the handlers that answer a missing input with a message
ValidatingControllers == {"analysis", "monitoring", "updates", "expert", "booking"}

\* run f was started with one of its required inputs empty
EmptyInput(f) == \E n \in DOMAIN formRuns[f].inputs : formRuns[f].inputs[n] = ""

\* C14: a handler of document analysis, monitoring registration, update
\* check, expert match or appointment booking that is invoked with a required
\* input empty issues no request and shows an error message
C14_ValidationBeforeNetwork ==
    \A f \in FormIds :
        (formRuns[f].ctl \in ValidatingControllers /\ EmptyInput(f))
            => /\ formRuns[f].requests = 0
               /\ formRuns[f].banners = 1
               /\ formRuns[f].pc = "done"

C14_Witness ==
    \E f \in FormIds :
        /\ formRuns[f].ctl = "booking"
        /\ formRuns[f].inputs[1] = "v" /\ formRuns[f].inputs[3] = ""
        /\ formRuns[f].requests = 0
        /\ formRuns[f].banners = 1
        /\ dpErrors > 0

(***************************************************************************)
(* The transcript under addMessage.                                        *)
(***************************************************************************)
\* a step of the loaded page, other than a load, that changes the transcript
TranscriptChanges == loads' = loads /\ messages' # messages

\* C15: addMessage appends exactly one Message, with the timestamp of the
\* call, to the end of the transcript, leaves the earlier messages as they
\* are and in place, and stores the serialization of the transcript under
\* 'chat_history'
C15_AddMessageAppendsAndPersists ==
    [][TranscriptChanges =>
          /\ \E call \in Calls :
                 messages' = Arr(Append(messages.items,
                                        Message(Str(call[1]), Str(call[2]), now)))
          /\ lsChatHistory' = Text(Stringify(messages'))]_vars

\* two equal calls after the first load of a fresh profile: both are kept
C15_Witness ==
    /\ loads = 1
    /\ CountArr(messages) = 2
    /\ Prop(messages.items[1], "content") = Prop(messages.items[2], "content")
    /\ Prop(messages.items[1], "role") = Prop(messages.items[2], "role")
    /\ lsChatHistory = Text(Stringify(messages))

(***************************************************************************)
(* The order of the transcript under overlapping sends.                    *)
(***************************************************************************)
\* what the step appends to the transcript
AppendedItems == SubSeq(messages'.items, Len(messages.items) + 1, Len(messages'.items))

\* the step keeps the transcript it found as a prefix
KeepsTranscript ==
    /\ Len(messages'.items) >= Len(messages.items)
    /\ SubSeq(messages'.items, 1, Len(messages.items)) = messages.items

RoleOf(msg) == Prop(msg, "role")

\* the step is a step of send k
SendMoves(k) == sends'[k] # sends[k]

\* C16: messages are appended in the order their originating action
\* completed: the step in which a send body runs appends the user message
\* of that send, a later step of that send (the arrival of its response or
\* failure) appends its one reply at that moment, behind everything appended
\* before, and no other step touches the transcript; so replies stand in
\* completion order and never before the user message of their send
C16_AppendedInCompletionOrder ==
    [][/\ KeepsTranscript
       /\ messages' # messages =>
              \E k \in SendIds :
                  /\ SendMoves(k)
                  /\ IF sends[k].pc = "idle"
                     THEN /\ RoleOf(AppendedItems[1]) = Str("user")
                          /\ Len(AppendedItems) <= 2
                          /\ Len(AppendedItems) = 2 =>
                                 RoleOf(AppendedItems[2]) = Str("assistant")
                     ELSE /\ Len(AppendedItems) = 1
                          /\ RoleOf(AppendedItems[1]) = Str("assistant")]_vars

\* two overlapping sends: the second one has got its reply before the first
\* one failed
C16_Witness ==
    /\ sends[1].outcome \in {"post_rejected", "http_error"}
    /\ sends[2].outcome = "replied"
    /\ Len(messages.items) = 4
    /\ RoleOf(messages.items[1]) = Str("user")
    /\ RoleOf(messages.items[2]) = Str("user")
    /\ Prop(messages.items[3], "content") # Str(ErrorNotice)
    /\ Prop(messages.items[4], "content") = Str(ErrorNotice)

(***************************************************************************)
(* The list of conversations.                                              *)
(***************************************************************************)
\* the records of the list, without the message counts
ListedRecords == {chatHistory[i] : i \in DOMAIN chatHistory}

\* C17: chatHistory holds at most 20 conversations, latest update first, at
\* most one entry per conversation id; they are the most recently updated
\* ones of all conversations recorded, each with its latest record, none
\* missing unless the list is full; and 'chatHistory' in storage holds the
\* same list
C17_HistoryKeepsTwentyLatest ==
    /\ Len(chatHistory) <= HistoryCap
    /\ \A i, j \in DOMAIN chatHistory :
           i < j => /\ chatHistory[i].lastUpdated >= chatHistory[j].lastUpdated
                    /\ chatHistory[i].id # chatHistory[j].id
    /\ ListedRecords \subseteq everUpdated
    /\ \A dropped \in everUpdated \ ListedRecords :
           /\ Len(chatHistory) = HistoryCap
           /\ \A kept \in ListedRecords : kept.lastUpdated >= dropped.lastUpdated
    /\ chatHistory # <<>> => lsChatList = [present |-> TRUE, entries |-> chatHistory]

\* more than 20 conversations were recorded, the earliest of them was
\* reopened and updated and stands first, and the list was cut
C17_Witness ==
    /\ Cardinality(everUpdated) > HistoryCap
    /\ Len(chatHistory) = HistoryCap
    /\ chatHistory[1].id = NowToString(1)
    /\ lsChatList.entries = chatHistory

(***************************************************************************)
(* Offline mode.                                                           *)
(***************************************************************************)
\* the POSTs to the chat endpoint issued so far
ChatPosts == [k \in SendIds |-> sends[k].posts]

\* C18: while offline mode is enabled no operation issues a health request
\* or a chat POST, and apiAvailable stays false
C18_OfflineModeStaysOffline ==
    /\ [][(offlineMode /\ offlineMode')
              => (healthReqs' = healthReqs /\ ChatPosts' = ChatPosts)]_vars
    /\ [](offlineMode => apiAvailable = Bool(FALSE))

\* the parts of C18, one by one
OfflineIssuesNoRequest ==
    [][(offlineMode /\ offlineMode')
           => (healthReqs' = healthReqs /\ ChatPosts' = ChatPosts)]_vars

OfflineFlagFalse == offlineMode => apiAvailable = Bool(FALSE)

(***************************************************************************)
(* Stream failures.                                                        *)
(***************************************************************************)
\* a step in which a socket of either stream closes or fires its error event
StreamFailure ==
    \/ ClosedSockets(newsSockets') # ClosedSockets(newsSockets)
    \/ ClosedSockets(chatSockets') # ClosedSockets(chatSockets)
    \/ \E i \in DOMAIN chatSockets : chatSockets'[i].errors # chatSockets[i].errors

\* every closed socket of the stream has had its reconnect scheduled
ReconnectScheduled(socks) == \A i \in ClosedSockets(socks) : socks[i].timer # "none"

\* C19: an error or close event of a stream socket, news or live chat,
\* renders no error to the user and leaves a reconnect attempt scheduled
C19_StreamFailureSilent ==
    [][StreamFailure =>
          /\ dpErrors' = dpErrors
          /\ ReconnectScheduled(newsSockets')
          /\ ReconnectScheduled(chatSockets')]_vars

\* the part of C19 that holds: the news stream
NewsFailureSilent ==
    [][ClosedSockets(newsSockets') # ClosedSockets(newsSockets)
           => (dpErrors' = dpErrors /\ ReconnectScheduled(newsSockets'))]_vars

(***************************************************************************)
(* Construction when localStorage throws.                                  *)
(***************************************************************************)
\* C20: on a page load where local storage access throws, construction of
\* the ChatInterface still completes with a freshly generated session id,
\* and no initialisation error is shown
C20_StorageFailureStillConstructs ==
    [][(loads' = loads + 1 /\ storage # "ok")
           => (loaded' /\ sessionId' \in SessionIds /\ initErrors' = initErrors)]_vars

(***************************************************************************)
(* One session per profile.                                                *)
(***************************************************************************)
\* C21: one active Session per browser profile: whenever a ChatInterface is
\* live, its sessionId equals the value stored under 'chat_session_id',
\* also after the storage clear of the data-deletion flow
C21_OneSessionPerProfile == loaded => lsSessionId = String(sessionId)

(***************************************************************************)
(* The messages of a send.                                                 *)
(***************************************************************************)
\* the messages of the transcript with the given role
WithRole(role) ==
    {i \in DOMAIN messages.items : RoleOf(messages.items[i]) = Str(role)}

\* the sends whose body ran with a non-empty sanitized input, and those of
\* them whose awaits have all settled
StartedSends == {k \in SendIds : sends[k].pc # "idle" /\ sends[k].outcome # "empty"}
SettledSends == {k \in StartedSends : sends[k].pc = "done"}

\* the texts an assistant message of a send can carry
ReplyTexts == {Str(OfflineNotice), Str(ErrorNotice), Str("ok")}

\* C22: every run of the send body with a non-empty sanitized input has
\* appended exactly one user message, and exactly one assistant message (the
\* reply, the offline notice or the error notice) once its awaits have
\* settled, on every path; a run with an empty input appends nothing and
\* issues no request
C22_OneUserOneAssistantPerSend ==
    /\ [](/\ Cardinality(WithRole("user")) = Cardinality(StartedSends)
          /\ Cardinality(WithRole("assistant")) = Cardinality(SettledSends)
          /\ \A i \in WithRole("assistant") :
                 Prop(messages.items[i], "content") \in ReplyTexts)
    /\ [][\A k \in SendIds :
              (sends[k].outcome # "empty" /\ sends'[k].outcome = "empty")
                  => /\ messages' = messages
                     /\ healthReqs' = healthReqs
                     /\ sends'[k].posts = 0]_vars

\* both sends have run to their end on different paths, one of them the
\* HTTP error path, and an empty input has been tried on the way or not
C22_Witness ==
    /\ sends[1].outcome = "http_error"
    /\ sends[2].outcome \in {"json_failed", "offline_unreachable", "offline_throttled"}
    /\ sends[2].pc = "done"
    /\ Cardinality(WithRole("assistant")) = 2

(***************************************************************************)
(* The offline notice.                                                     *)
(***************************************************************************)
OfflineOutcomes == {"offline_throttled", "offline_unreachable", "offline_unhealthy"}

\* C23: a send is answered with the offline notice only when a health
\* request made for that send has just failed, never because
\* checkApiAvailability returned without checking
C23_OfflineNoticeOnlyAfterFailedCheck ==
    [][\A k \in SendIds :
           (sends'[k].outcome \in OfflineOutcomes /\ sends[k].outcome \notin OfflineOutcomes)
               => (sends[k].pc = "hfetch" /\ healthReqs # <<>>)]_vars

(***************************************************************************)
(* The debounce.                                                           *)
(***************************************************************************)
\* the runs of the send body made for invocation i
RunsOf(i) == {r \in DOMAIN bodyRuns : bodyRuns[r].inv = i}

\* invocation i was followed by another one less than the wait later
FollowedClosely(i) ==
    i < Len(invocations) /\ invocations[i + 1] - invocations[i] < DebounceWait

\* invocation i was followed by another one, the wait or more later
FollowedLater(i) ==
    i < Len(invocations) /\ invocations[i + 1] - invocations[i] >= DebounceWait

\* what holds of a burst whatever the timers do: an invocation followed
\* closely never runs the body, no invocation runs it twice, and each run
\* of the body adds at most one user message and issues at most one POST
BurstRunsBodyOnce ==
    /\ \A i \in DOMAIN invocations :
           /\ Cardinality(RunsOf(i)) <= 1
           /\ FollowedClosely(i) => RunsOf(i) = {}
    /\ Cardinality({k \in SendIds : sends[k].pc # "idle"}) = Len(bodyRuns)
    /\ Cardinality(WithRole("user")) <= Len(bodyRuns)
    /\ \A k \in SendIds : sends[k].posts <= 1

\* C24 as stated: within a burst the body runs once, 300 ms after the last
\* invocation, and invocations 300 ms or more apart each run the body once
C24_DebounceAsStated ==
    /\ BurstRunsBodyOnce
    /\ \A r \in DOMAIN bodyRuns :
           bodyRuns[r].at = invocations[bodyRuns[r].inv] + DebounceWait
    /\ \A i \in DOMAIN invocations : FollowedLater(i) => Cardinality(RunsOf(i)) = 1

\* C24, amended: within a burst the body runs at most once, for the last
\* invocation and not earlier than 300 ms after it; an invocation runs the
\* body exactly once if its timer has fired before the next invocation, and
\* not at all otherwise; whenever no timer is pending the last invocation
\* has run the body
C24_DebounceTrailing ==
    /\ BurstRunsBodyOnce
    /\ \A r \in DOMAIN bodyRuns :
           bodyRuns[r].at >= invocations[bodyRuns[r].inv] + DebounceWait
    /\ Cardinality(timers) <= 1
    /\ \A tm \in timers : tm.inv = Len(invocations) /\ RunsOf(tm.inv) = {}
    /\ (timers = {} /\ invocations # <<>>) => RunsOf(Len(invocations)) # {}

\* a burst of two invocations ran the body once, for the second, and a
\* third invocation, later, ran it again
C24_Witness ==
    /\ Len(invocations) = 3
    /\ FollowedClosely(1)
    /\ FollowedLater(2)
    /\ RunsOf(1) = {}
    /\ Len(bodyRuns) = 2
    /\ bodyRuns[1].inv = 2
    /\ bodyRuns[2].inv = 3

(***************************************************************************)
(* The typing indicators.                                                  *)
(***************************************************************************)
\* the sends awaiting the response of their POST
AwaitingPost == {k \in SendIds : sends[k].pc = "post"}

\* C25: the number of typing indicators on the page equals the number of
\* sends awaiting their POST response
C25_IndicatorPerPendingPost == typing = Cardinality(AwaitingPost)

(***************************************************************************)
(* The news feed.                                                          *)
(***************************************************************************)
\* a step in which filterNews runs: the filter selects take another value
FilterStep == newsFilter' # newsFilter

\* C26: when filterNews has reset the feed, page 1 of the news for the
\* filters now selected is requested, and every item in the feed was
\* fetched with the filters selected: a load in flight when the filters
\* changed renders nothing into the cleared feed and does not advance
\* newsPage
C26_FilterReloadsFeed ==
    /\ [][FilterStep =>
              newsReqs' = Append(newsReqs, [page |-> 1, filter |-> newsFilter'])]_vars
    /\ [](\A i \in DOMAIN newsFeed : newsFeed[i].filter = newsFilter)
    /\ [][(dpBuilt /\ newsPage' # newsPage /\ ~FilterStep) =>
              \E l \in FeedLoadIds :
                  /\ newsLoads[l].pc = "json"
                  /\ newsLoads'[l].pc = "done"
                  /\ newsLoads[l].filter = newsFilter]_vars

\* the parts of C26, one by one
FilterRequestsPageOne ==
    [][FilterStep => newsReqs' = Append(newsReqs, [page |-> 1, filter |-> newsFilter'])]_vars
FeedShowsSelectedFilter == \A i \in DOMAIN newsFeed : newsFeed[i].filter = newsFilter

\* the requests of news page 1 issued so far
PageOneRequests == {i \in DOMAIN newsReqs : newsReqs[i].page = 1}

\* C27: once a DocumentProcessor is constructed, the loadNewsFeed call of
\* its constructor has issued a request for news page 1, and until that
\* request settles newsLoading is true, newsPage is 1 and newsHasMore is true
C27_ConstructionLoadsNews ==
    dpBuilt =>
        /\ newsLoads[1].pc # "idle"
        /\ ~newsLoads[1].skipped
        /\ PageOneRequests # {}
        /\ newsLoads[1].pc = "fetch" =>
               (newsLoading /\ newsPage = 1 /\ newsHasMore)

(***************************************************************************)
(* Clearing the chat.                                                      *)
(***************************************************************************)
\* C28: after clearCurrentChat the transcript in memory holds the fresh
\* welcome message and nothing else, and 'chat_history' stores that
\* transcript, so that no message added before the clear remains
C28_ClearDiscardsTranscript ==
    [][ClearChatClick =>
          /\ messages' = Arr(<<Message(Str("assistant"), Str(WelcomeMessage), now)>>)
          /\ lsChatHistory' = SaveChatHistory(messages')]_vars

(***************************************************************************)
(* The documents of the DocumentManager.                                   *)
(***************************************************************************)
\* the documents this.documents holds
Listed == {documents[i] : i \in DOMAIN documents}

\* the documents a DELETE request has named
DeleteRequested == {d \in dmOkUploads : \E i \in DOMAIN dmDeleteReqs : dmDeleteReqs[i] = d.id}

\* the alerts of the given kind shown so far
AlertsOf(kind) == {i \in DOMAIN dmAlerts : dmAlerts[i] = kind}

\* C29: this.documents holds the documents whose upload returned ok and
\* that no DELETE has removed, and nothing else; every upload that returned
\* ok has been reported as a success
C29_DocumentsAreOkUploads ==
    /\ Listed \subseteq dmOkUploads
    /\ dmOkUploads \ DeleteRequested \subseteq Listed
    /\ Cardinality(AlertsOf("uploaded")) = Cardinality(dmOkUploads)

====
